---- MODULE Spec2Model ----
(***************************************************************************)
(* Model of the InsightChat context pipeline: capability providers         *)
(* (calendar, weather, quotes), the tool router, the retrieval client,     *)
(* the /chat and /api/voice-query turns, and the document chunker.         *)
(*                                                                         *)
(* Text is modelled as a sequence of one-character strings, so that        *)
(* substring tests, regular expressions, slicing and strip() are computed  *)
(* on characters as the Python code computes them.  Where only the size of *)
(* a text matters (context budget), the text is a record with its length.  *)
(***************************************************************************)
EXTENDS Integers, Sequences, FiniteSets, TLC

(***************************************************************************)
(* Bounds of the model                                                     *)
(***************************************************************************)
\* number of phrases concatenated into a classified query
MaxPhrases == 2
\* number of HTTP turns per session
MaxTurns == 2
\* length of the chunked text
MaxTextLen == 5
\* largest chunk_size / overlap argument
MaxChunkSize == 3
\* chunks collected by a run of the chunker that is followed
MaxChunks == 6
\* how far below zero the chunker's start offset is followed
MaxBack == 6
\* chunks of the longest document summarized below the cap
MaxDocChunks == 6
MaxEvents == 2
MaxDocLen == 120000

(***************************************************************************)
(* Python helpers on text                                                  *)
(***************************************************************************)
Min(a, b) == IF a <= b THEN a ELSE b

Max(a, b) == IF a >= b THEN a ELSE b

UpperAlpha ==
  <<"A", "B", "C", "D", "E", "F", "G", "H", "I", "J", "K", "L", "M",
    "N", "O", "P", "Q", "R", "S", "T", "U", "V", "W", "X", "Y", "Z">>

LowerAlpha ==
  <<"a", "b", "c", "d", "e", "f", "g", "h", "i", "j", "k", "l", "m",
    "n", "o", "p", "q", "r", "s", "t", "u", "v", "w", "x", "y", "z">>

\* str.lower()
Lower(s) ==
  [i \in 1..Len(s) |->
     IF \E k \in 1..26 : UpperAlpha[k] = s[i]
     THEN LowerAlpha[CHOOSE k \in 1..26 : UpperAlpha[k] = s[i]]
     ELSE s[i]]

\* Python's  sub in s
Contains(s, sub) ==
  \E i \in 1..(Len(s) - Len(sub) + 1) : SubSeq(s, i, i + Len(sub) - 1) = sub

IsSpace(c) == c \in {" ", "\t", "\n", "\r"}

IsDigit(c) == c \in {"0", "1", "2", "3", "4", "5", "6", "7", "8", "9"}

DigitChars == <<"0", "1", "2", "3", "4", "5", "6", "7", "8", "9">>

\* int(s) of a non-empty digit string
RECURSIVE StrToInt(_)
StrToInt(d) ==
  IF Len(d) = 0 THEN 0
  ELSE 10 * StrToInt(SubSeq(d, 1, Len(d) - 1))
       + ((CHOOSE k \in 1..10 : DigitChars[k] = d[Len(d)]) - 1)

\* str(n) of a natural number, as an f-string formats it
RECURSIVE IntToStr(_)
IntToStr(n) ==
  IF n < 10 THEN <<DigitChars[n + 1]>>
  ELSE IntToStr(n \div 10) \o <<DigitChars[(n % 10) + 1]>>

(***************************************************************************)
(* Regular-expression pieces.  A position p is the number of characters    *)
(* already consumed; each piece maps a set of positions to the set of      *)
(* positions after the piece.                                              *)
(***************************************************************************)
\* a literal
ReLit(s, P, lit) ==
  { p + Len(lit) : p \in { x \in P : /\ x + Len(lit) <= Len(s)
                                     /\ SubSeq(s, x + 1, x + Len(lit)) = lit } }

\* one of several literals
ReAlt(s, P, lits) == UNION { ReLit(s, P, l) : l \in lits }

\* \s+
ReSpaces(s, P) ==
  { j \in 1..Len(s) : \E p \in P : p < j /\ \A k \in (p + 1)..j : IsSpace(s[k]) }

\* \d+
ReDigits(s, P) ==
  { j \in 1..Len(s) : \E p \in P : p < j /\ \A k \in (p + 1)..j : IsDigit(s[k]) }

\* .* (any characters except a newline)
ReAny(s, P) ==
  { j \in 0..Len(s) : \E p \in P : p <= j /\ \A k \in (p + 1)..j : s[k] # "\n" }


(***************************************************************************)
(* Keyword tables of the providers                                         *)
(***************************************************************************)
primary_keywords ==
  <<<<"c", "a", "l", "e", "n", "d", "a", "r">>,
     <<"e", "v", "e", "n", "t">>,
     <<"e", "v", "e", "n", "t", "s">>,
     <<"s", "c", "h", "e", "d", "u", "l", "e">>,
     <<"a", "p", "p", "o", "i", "n", "t", "m", "e", "n", "t">>,
     <<"a", "p", "p", "o", "i", "n", "t", "m", "e", "n", "t", "s">>,
     <<"m", "e", "e", "t", "i", "n", "g">>,
     <<"m", "e", "e", "t", "i", "n", "g", "s">>,
     <<"a", "g", "e", "n", "d", "a">>,
     <<"t", "o", "d", "a", "y">>,
     <<"t", "o", "m", "o", "r", "r", "o", "w">>,
     <<"t", "o", "n", "i", "g", "h", "t">>,
     <<"t", "h", "i", "s", " ", "w", "e", "e", "k">>,
     <<"n", "e", "x", "t", " ", "w", "e", "e", "k">>,
     <<"t", "h", "i", "s", " ", "m", "o", "n", "t", "h">>,
     <<"n", "e", "x", "t", " ", "m", "o", "n", "t", "h">>>>

secondary_keywords ==
  <<<<"w", "h", "e", "n">>,
     <<"w", "h", "a", "t", " ", "t", "i", "m", "e">>,
     <<"a", "m", " ", "i", " ", "b", "u", "s", "y">>,
     <<"f", "r", "e", "e">>,
     <<"a", "v", "a", "i", "l", "a", "b", "l", "e">>>>

document_keywords ==
  <<<<"d", "o", "c", "u", "m", "e", "n", "t">>,
     <<"f", "i", "l", "e">>,
     <<"p", "d", "f">>,
     <<"e", "m", "a", "i", "l">>,
     <<"a", "t", "t", "a", "c", "h", "m", "e", "n", "t">>>>

number_words ==
  <<<<"o", "n", "e">>,
     <<"t", "w", "o">>,
     <<"t", "h", "r", "e", "e">>,
     <<"f", "o", "u", "r">>,
     <<"f", "i", "v", "e">>,
     <<"s", "i", "x">>,
     <<"s", "e", "v", "e", "n">>,
     <<"e", "i", "g", "h", "t">>,
     <<"n", "i", "n", "e">>,
     <<"t", "e", "n">>>>

weather_keywords ==
  <<<<"w", "e", "a", "t", "h", "e", "r">>,
     <<"t", "e", "m", "p", "e", "r", "a", "t", "u", "r", "e">>,
     <<"t", "e", "m", "p">>,
     <<"f", "o", "r", "e", "c", "a", "s", "t">>,
     <<"r", "a", "i", "n">>,
     <<"r", "a", "i", "n", "i", "n", "g">>,
     <<"s", "u", "n", "n", "y">>,
     <<"c", "l", "o", "u", "d", "y">>,
     <<"s", "n", "o", "w">>,
     <<"s", "n", "o", "w", "i", "n", "g">>,
     <<"w", "i", "n", "d">>,
     <<"w", "i", "n", "d", "y">>,
     <<"h", "u", "m", "i", "d", "i", "t", "y">>,
     <<"h", "u", "m", "i", "d">>,
     <<"h", "o", "t">>,
     <<"c", "o", "l", "d">>,
     <<"w", "a", "r", "m">>,
     <<"c", "o", "o", "l">>,
     <<"f", "r", "e", "e", "z", "i", "n", "g">>,
     <<"d", "e", "g", "r", "e", "e", "s">>,
     <<"f", "a", "h", "r", "e", "n", "h", "e", "i", "t">>,
     <<"c", "e", "l", "s", "i", "u", "s">>,
     <<"p", "r", "e", "c", "i", "p", "i", "t", "a", "t", "i", "o", "n">>,
     <<"p", "r", "e", "s", "s", "u", "r", "e">>,
     <<"b", "a", "r", "o", "m", "e", "t", "r", "i", "c">>,
     <<"u", "v">>,
     <<"u", "v", " ", "i", "n", "d", "e", "x">>,
     <<"s", "u", "n", "s", "h", "i", "n", "e">>,
     <<"o", "u", "t", "s", "i", "d", "e">>,
     <<"o", "u", "t", "d", "o", "o", "r", "s">>,
     <<"u", "m", "b", "r", "e", "l", "l", "a">>,
     <<"j", "a", "c", "k", "e", "t">>,
     <<"c", "o", "a", "t">>,
     <<"s", "h", "o", "r", "t", "s">>,
     <<"w", "h", "a", "t", ".", "*", "l", "i", "k", "e", " ", "o", "u", "t", "s", "i", "d", "e">>,
     <<"h", "o", "w", ".", "*", "o", "u", "t", "s", "i", "d", "e">>,
     <<"t", "e", "m", "p", "e", "s", "t">>,
     <<"s", "t", "a", "t", "i", "o", "n">>,
     <<"s", "e", "n", "s", "o", "r">>>>

quotes_keywords ==
  <<<<"q", "u", "o", "t", "e">>,
     <<"q", "u", "o", "t", "e", "s">>,
     <<"q", "u", "o", "t", "a", "t", "i", "o", "n">>,
     <<"s", "a", "y", "i", "n", "g">>,
     <<"p", "r", "o", "v", "e", "r", "b">>,
     <<"w", "i", "s", "d", "o", "m">>,
     <<"i", "n", "s", "p", "i", "r", "a", "t", "i", "o", "n">>,
     <<"i", "n", "s", "p", "i", "r", "e">>,
     <<"m", "o", "t", "i", "v", "a", "t", "e">>,
     <<"m", "o", "t", "i", "v", "a", "t", "i", "o", "n">>,
     <<"f", "a", "m", "o", "u", "s", " ", "s", "a", "y", "i", "n", "g">>,
     <<"w", "h", "o", " ", "s", "a", "i", "d">>,
     <<"r", "s", "s">>,
     <<"f", "e", "e", "d">>,
     <<"a", "r", "t", "i", "c", "l", "e">>>>

W_when == <<"w", "h", "e", "n">>

W_is == <<"i", "s">>

W_the == <<"t", "h", "e">>

W_my == <<"m", "y">>

W_next == <<"n", "e", "x", "t">>

W_week == <<"w", "e", "e", "k">>

W_weeks == <<"w", "e", "e", "k", "s">>

W_day == <<"d", "a", "y">>

W_next_month == <<"n", "e", "x", "t", " ", "m", "o", "n", "t", "h">>

W_this_week == <<"t", "h", "i", "s", " ", "w", "e", "e", "k">>

W_next_week == <<"n", "e", "x", "t", " ", "w", "e", "e", "k">>

W_tomorrow == <<"t", "o", "m", "o", "r", "r", "o", "w">>

W_today == <<"t", "o", "d", "a", "y">>

W_tonight == <<"t", "o", "n", "i", "g", "h", "t">>

W_wildcard == <<".", "*">>

(***************************************************************************)
(* Calendar provider: intent rule and time-range resolution                *)
(***************************************************************************)
MinOf(S) == CHOOSE x \in S : \A y \in S : x <= y

AnyIn(s, keywords) == \E i \in DOMAIN keywords : Contains(s, keywords[i])

\* re.search(r'when\s+is\s+(the|my)\s+next', s): the positions after a match
NextEventEnds(s) ==
  ReLit(s, ReSpaces(s, ReAlt(s, ReSpaces(s, ReLit(s, ReSpaces(s,
        ReLit(s, 0..Len(s), W_when)), W_is)), {W_the, W_my})), W_next)

NextEventPattern(s) == NextEventEnds(s) # {}

\* re.search(r'when\s+is\s+(the|my)\s+next\s+(.+)', s)
NextEventTermPattern(s) ==
  \E p \in ReSpaces(s, NextEventEnds(s)) : p < Len(s) /\ s[p + 1] # "\n"

\* groups (\d+) of the matches of  next\s+(\d+)\s+<unit>s?  that begin at p
NumDigitAt(s, p, unit) ==
  { SubSeq(s, bd[1] + 1, bd[2]) :
      bd \in { x \in ReSpaces(s, ReLit(s, {p}, W_next)) \X (1..Len(s)) :
                 /\ x[2] \in ReDigits(s, {x[1]})
                 /\ ReLit(s, ReSpaces(s, {x[2]}), unit) # {} } }

\* group 1 of the leftmost match, <<>> when there is no match
NextNumDigit(s, unit) ==
  LET starts == { p \in 0..Len(s) : NumDigitAt(s, p, unit) # {} }
  IN  IF starts = {} THEN <<>>
      ELSE CHOOSE g \in NumDigitAt(s, MinOf(starts), unit) : TRUE

\* alternatives (one|two|...|ten) of the matches of
\* next\s+(one|...|ten)\s+<unit>s?  that begin at p, as indexes of number_words
NumWordAt(s, p, unit) ==
  { i \in DOMAIN number_words :
      ReLit(s, ReSpaces(s, ReLit(s, ReSpaces(s, ReLit(s, {p}, W_next)),
            number_words[i])), unit) # {} }

\* word_to_num of group 1 of the leftmost match, 0 when there is no match
NextNumWord(s, unit) ==
  LET starts == { p \in 0..Len(s) : NumWordAt(s, p, unit) # {} }
  IN  IF starts = {} THEN 0 ELSE MinOf(NumWordAt(s, MinOf(starts), unit))

Endpoint(kind, days) == [kind |-> kind, days |-> days]

\* the 'tomorrow' rule is tried before the rules that begin with 'next'
determine_endpoint_tomorrow_first(user_message) ==
  LET message_lower == Lower(user_message)
      next_weeks_digit == NextNumDigit(message_lower, W_week)
      next_weeks_word == NextNumWord(message_lower, W_week)
      next_days_digit == NextNumDigit(message_lower, W_day)
      next_days_word == NextNumWord(message_lower, W_day)
  IN  IF NextEventPattern(message_lower) THEN Endpoint("next", <<"3", "0">>)
      ELSE IF Contains(message_lower, W_tomorrow) THEN Endpoint("tomorrow", <<>>)
      ELSE IF next_weeks_digit # <<>>
        THEN Endpoint("next", IntToStr(StrToInt(next_weeks_digit) * 7))
      ELSE IF next_weeks_word # 0
        THEN Endpoint("next", IntToStr(next_weeks_word * 7))
      ELSE IF next_days_digit # <<>> THEN Endpoint("next", next_days_digit)
      ELSE IF next_days_word # 0 THEN Endpoint("next", IntToStr(next_days_word))
      ELSE IF Contains(message_lower, W_next_month)
        THEN Endpoint("next", <<"3", "0">>)
      ELSE IF Contains(message_lower, W_this_week) THEN Endpoint("next", <<"7">>)
      ELSE IF /\ Contains(message_lower, W_next_week)
              /\ ~Contains(message_lower, W_weeks)
        THEN Endpoint("next", <<"1", "4">>)
      ELSE IF \/ Contains(message_lower, W_today)
              \/ Contains(message_lower, W_tonight)
        THEN Endpoint("today", <<>>)
      ELSE Endpoint("next", <<"7">>)

\* CalendarTool._determine_endpoint: the endpoint path /calendar/events/<kind>
\* and, for kind "next", the digits written after next/
determine_endpoint(user_message) ==
  LET message_lower == Lower(user_message)
      next_weeks_digit == NextNumDigit(message_lower, W_week)
      next_weeks_word == NextNumWord(message_lower, W_week)
      next_days_digit == NextNumDigit(message_lower, W_day)
      next_days_word == NextNumWord(message_lower, W_day)
  IN  IF NextEventPattern(message_lower) THEN Endpoint("next", <<"3", "0">>)
      ELSE IF next_weeks_digit # <<>>
        THEN Endpoint("next", IntToStr(StrToInt(next_weeks_digit) * 7))
      ELSE IF next_weeks_word # 0
        THEN Endpoint("next", IntToStr(next_weeks_word * 7))
      ELSE IF next_days_digit # <<>> THEN Endpoint("next", next_days_digit)
      ELSE IF next_days_word # 0 THEN Endpoint("next", IntToStr(next_days_word))
      ELSE IF Contains(message_lower, W_next_month)
        THEN Endpoint("next", <<"3", "0">>)
      ELSE IF Contains(message_lower, W_this_week) THEN Endpoint("next", <<"7">>)
      ELSE IF /\ Contains(message_lower, W_next_week)
              /\ ~Contains(message_lower, W_weeks)
        THEN Endpoint("next", <<"1", "4">>)
      ELSE IF Contains(message_lower, W_tomorrow) THEN Endpoint("tomorrow", <<>>)
      ELSE IF \/ Contains(message_lower, W_today)
              \/ Contains(message_lower, W_tonight)
        THEN Endpoint("today", <<>>)
      ELSE Endpoint("next", <<"7">>)

Intent(type, days) == [type |-> type, days |-> days]

\* IntentDetector.detect: the intent type and its number of days
\* (0 where the intent carries no 'days')
detect(query) ==
  LET message_lower == Lower(query)
      next_weeks_digit == NextNumDigit(message_lower, W_week)
      next_weeks_word == NextNumWord(message_lower, W_week)
      next_days_digit == NextNumDigit(message_lower, W_day)
      next_days_word == NextNumWord(message_lower, W_day)
  IN  IF NextEventTermPattern(message_lower) THEN Intent("find_next_event", 30)
      ELSE IF next_weeks_digit # <<>>
        THEN Intent("events_next_n_days", StrToInt(next_weeks_digit) * 7)
      ELSE IF next_weeks_word # 0
        THEN Intent("events_next_n_days", next_weeks_word * 7)
      ELSE IF next_days_digit # <<>>
        THEN Intent("events_next_n_days", StrToInt(next_days_digit))
      ELSE IF next_days_word # 0 THEN Intent("events_next_n_days", next_days_word)
      ELSE IF Contains(message_lower, W_next_month)
        THEN Intent("events_next_n_days", 30)
      ELSE IF Contains(message_lower, W_this_week)
        THEN Intent("events_next_n_days", 7)
      ELSE IF /\ Contains(message_lower, W_next_week)
              /\ ~Contains(message_lower, W_weeks)
        THEN Intent("events_next_n_days", 14)
      ELSE IF Contains(message_lower, W_tomorrow) THEN Intent("events_tomorrow", 0)
      ELSE IF \/ Contains(message_lower, W_today)
              \/ Contains(message_lower, W_tonight)
        THEN Intent("events_today", 0)
      ELSE Intent("events_next_n_days", 7)

\* CalendarAnalyzer._fetch_events_for_intent with the ICS repository: the
\* request made for an intent, written as an endpoint
fetch_events_for_intent(intent_) ==
  IF intent_.type = "events_today" THEN Endpoint("today", <<>>)
  ELSE IF intent_.type = "events_tomorrow" THEN Endpoint("tomorrow", <<>>)
  ELSE IF intent_.type \in {"events_next_n_days", "find_next_event"}
    THEN Endpoint("next", IntToStr(intent_.days))
  ELSE Endpoint("next", <<"7">>)

\* the secondary keywords are taken although a document keyword is present
calendar_can_handle_no_exclusion(enabled, api_url, query) ==
  /\ enabled
  /\ api_url # ""
  /\ \/ AnyIn(Lower(query), primary_keywords)
     \/ AnyIn(Lower(query), secondary_keywords)
     \/ NextEventPattern(Lower(query))

\* CalendarTool.can_handle
calendar_can_handle(enabled, api_url, query) ==
  IF ~enabled \/ api_url = "" THEN FALSE
  ELSE LET message_lower == Lower(query)
       IN  IF AnyIn(message_lower, primary_keywords) THEN TRUE
           ELSE IF /\ AnyIn(message_lower, secondary_keywords)
                   /\ ~AnyIn(message_lower, document_keywords)
             THEN TRUE
           ELSE IF NextEventPattern(message_lower) THEN TRUE
           ELSE FALSE

\* IntentDetector.can_handle
intent_can_handle(query) ==
  LET message_lower == Lower(query)
  IN  IF AnyIn(message_lower, primary_keywords) THEN TRUE
      ELSE IF /\ AnyIn(message_lower, secondary_keywords)
              /\ ~AnyIn(message_lower, document_keywords)
        THEN TRUE
      ELSE IF NextEventPattern(message_lower) THEN TRUE
      ELSE FALSE

\* CalendarAnalyzer.can_handle
analyzer_can_handle(enabled, query) ==
  IF ~enabled THEN FALSE ELSE intent_can_handle(query)

(***************************************************************************)
(* Weather and quotes providers: flat keyword matching                     *)
(***************************************************************************)
\* BaseTool.is_available with required config ['api_url']
is_available(enabled, api_url) ==
  IF ~enabled THEN FALSE ELSE IF api_url = "" THEN FALSE ELSE TRUE

\* re.search of a keyword  <head>.*<tail>
WildcardMatch(s, keyword) ==
  LET cut == CHOOSE i \in 1..(Len(keyword) - 1) :
               SubSeq(keyword, i, i + 1) = W_wildcard
      head == SubSeq(keyword, 1, cut - 1)
      tail == SubSeq(keyword, cut + 2, Len(keyword))
  IN  ReLit(s, ReAny(s, ReLit(s, 0..Len(s), head)), tail) # {}

\* the availability check at the head of can_handle is left out
weather_can_handle_unchecked(enabled, api_url, query) ==
  LET query_lower == Lower(query)
  IN  \E i \in DOMAIN weather_keywords :
        IF Contains(weather_keywords[i], W_wildcard)
        THEN WildcardMatch(query_lower, weather_keywords[i])
        ELSE Contains(query_lower, weather_keywords[i])

\* WeatherTool.can_handle
weather_can_handle(enabled, api_url, query) ==
  IF ~is_available(enabled, api_url) THEN FALSE
  ELSE LET query_lower == Lower(query)
       IN  \E i \in DOMAIN weather_keywords :
             IF Contains(weather_keywords[i], W_wildcard)
             THEN WildcardMatch(query_lower, weather_keywords[i])
             ELSE Contains(query_lower, weather_keywords[i])

\* QuotesTool.can_handle
quotes_can_handle(enabled, api_url, query) ==
  IF ~is_available(enabled, api_url) THEN FALSE
  ELSE AnyIn(Lower(query), quotes_keywords)


(***************************************************************************)
(* State                                                                   *)
(***************************************************************************)
\* CalendarTool / IntentDetector: one query classified and resolved; the
\* weather and quotes providers, built with the same enabled and api_url,
\* classify it too
VARIABLES
  query,              \* the query handed to the provider
  cal_enabled,        \* argument enabled of the provider's constructor
  cal_api_url,        \* argument api_url ("" when not configured)
  intent_pc,          \* "idle", "input", "classified", "resolved", "executed"
  can_handle_result,  \* value returned by CalendarTool.can_handle
  weather_result,     \* value returned by WeatherTool.can_handle
  quotes_result,      \* value returned by QuotesTool.can_handle
  lib_can_handle,     \* value returned by CalendarAnalyzer.can_handle
  endpoint,           \* value returned by CalendarTool._determine_endpoint
  intent,             \* value returned by IntentDetector.detect
  events,             \* summaries of data['events'] of the API reply, in order
  presented           \* summaries written in result['data']['formatted']

intentVars ==
  <<query, cal_enabled, cal_api_url, intent_pc, can_handle_result,
    weather_result, quotes_result, lib_can_handle, endpoint, intent, events,
    presented>>

\* the /chat and /api/voice-query handlers and the tool router
VARIABLES
  tool_system_enabled, \* config.TOOL_SYSTEM_ENABLED
  rag_api_url,         \* os.getenv("RAG_API_URL"), "" when unset
  tools,               \* ToolRouter.tools, in registration order
  route,               \* "chat" or "voice"
  prompt,              \* the stripped prompt / transcribed text
  use_repo_docs,       \* form field use_repo_docs / use_rag
  loaded_context,      \* form field loaded_context (a text, <<>> when absent)
  pc,                  \* position of the turn in its handler
  matching_tools,      \* route_query: tools whose can_handle is true
  tool_idx,            \* route_query: index of the next tool to execute
  tool_results,        \* route_query: tool_results
  context_parts,       \* route_query: context_parts
  tool_context,        \* the formatted context returned by route_query
  executed,            \* names of the tools whose execute was awaited, in order
  tools_handled_query, \* local tools_handled_query
  rag_requests,        \* POST /query requests issued in this turn
  rag_outcome,         \* outcome of the retrieval request ("none" if not made)
  rag_chunks,          \* number of chunks returned by fetch_repo_chunks
  context_text,        \* local context_text (<<>> for None)
  doc_outcome,         \* outcome of GET /documents ("none" if not made)
  combined_context,    \* content of the system message put before the history
  llm_calls,           \* POST requests to the LLM in this turn
  llm_outcome,         \* outcome of the LLM request ("none" if not made)
  response_text,       \* text returned by prompt_model
  message_history,     \* session["message_history"]
  turn_result,         \* how the last turn ended
  turns                \* requests handled so far

cfgVars == <<tool_system_enabled, rag_api_url, tools>>

reqVars == <<route, prompt, use_repo_docs, loaded_context>>

routerVars ==
  <<matching_tools, tool_idx, tool_results, context_parts, tool_context, executed>>

ragVars == <<tools_handled_query, rag_requests, rag_outcome, rag_chunks, context_text>>

llmVars == <<combined_context, llm_calls, llm_outcome, response_text>>

sessVars == <<message_history, turn_result, turns>>

turnVars ==
  <<cfgVars, reqVars, pc, routerVars, ragVars, doc_outcome, llmVars, sessVars>>

\* document_processor.chunk_text
VARIABLES
  text,        \* argument text
  chunk_size,  \* argument chunk_size
  overlap,     \* argument overlap
  chunk_pc,    \* "off", "call", "loop", "body", "done"
  start,       \* local start
  chunks,      \* local chunks, the returned list
  spans        \* for each element of chunks, the <<start, end>> it was cut at

chunkVars == <<text, chunk_size, overlap, chunk_pc, start, chunks, spans>>

\* document_processor.summarize_large_document
VARIABLES
  sum_pc,                  \* "off", "call", "loop", "done"
  total_chunks,            \* len(chunks) of the document being summarized
  overview_response,       \* outcome of the overview request
  chunk_index,             \* the loop variable i
  scorer_replies,          \* the reply received for each scoring request
  chunk_relevance_scores,  \* local chunk_relevance_scores: <<i, score>>
  relevant_summaries,      \* local relevant_summaries
  sections_analysis,       \* the entries joined into the synthesis prompt
  synthesis_calls,         \* synthesis requests sent
  summary_result           \* the returned dict

sumVars ==
  <<sum_pc, total_chunks, overview_response, chunk_index, scorer_replies,
    chunk_relevance_scores, relevant_summaries, sections_analysis,
    synthesis_calls, summary_result>>

\* chunk_text called with the constants of summarize_large_document
VARIABLES
  doc_len,      \* len(text)
  doc_pc,       \* "off", "call", "loop", "done"
  doc_start,    \* local start
  doc_windows   \* the <<start, end>> of text[start:end] of every pass

docVars == <<doc_len, doc_pc, doc_start, doc_windows>>

(***************************************************************************)
(* Classification of one query by the calendar provider                    *)
(***************************************************************************)
Phrases ==
  <<<<>>,
     <<"W", "h", "e", "n", " ", " ", "i", "s", " ", "m", "y", " ", "n", "e", "x", "t">>,
     <<"w", "h", "e", "n", " ", "i", "s", " ", "t", "h", "e", " ", "n", "e", "x", "t">>,
     <<"n", "e", "x", "t", " ", "2", " ", "w", "e", "e", "k", "s">>,
     <<"n", "e", "x", "t", " ", "t", "e", "n", " ", "w", "e", "e", "k">>,
     <<"n", "e", "x", "t", " ", "1", "0", " ", "d", "a", "y", "s">>,
     <<"n", "e", "x", "t", " ", "o", "n", "e", " ", "d", "a", "y">>,
     <<"n", "e", "x", "t", " ", "m", "o", "n", "t", "h">>,
     <<"t", "h", "i", "s", " ", "w", "e", "e", "k">>,
     <<"n", "e", "x", "t", " ", "w", "e", "e", "k">>,
     <<"T", "o", "m", "o", "r", "r", "o", "w">>,
     <<"t", "o", "d", "a", "y">>,
     <<"t", "o", "n", "i", "g", "h", "t">>,
     <<"T", "o", "m", "o", "r", "r", "o", "w", " ", "a", "n", "d">>,
     <<"f", "r", "e", "e">>,
     <<"f", "i", "l", "e">>,
     <<"d", "e", "n", "t", "i", "s", "t">>,
     <<"m", "e", "e", "t", "i", "n", "g">>,
     <<"W", "i", "n", "d", "y">>,
     <<"h", "o", "w", " ", "i", "s", " ", "i", "t", " ", "O", "u", "t", "s", "i", "d", "e">>,
     <<"a", " ", "Q", "u", "o", "t", "e">>>>

\* the phrases joined by single spaces, as a stripped prompt
RECURSIVE JoinPhrases(_)
JoinPhrases(ps) ==
  IF Len(ps) = 0 THEN <<>>
  ELSE LET rest == JoinPhrases(Tail(ps))
       IN  IF Len(Head(ps)) = 0 THEN rest
           ELSE IF Len(rest) = 0 THEN Head(ps)
           ELSE Head(ps) \o <<" ">> \o rest

Queries ==
  { JoinPhrases([i \in 1..MaxPhrases |-> Phrases[f[i]]]) :
      f \in [1..MaxPhrases -> DOMAIN Phrases] }

NoEndpoint == Endpoint("none", <<>>)

\* summaries of the events of an API reply
EventSummaries ==
  {<<"D", "e", "n", "t", "i", "s", "t">>, <<"m", "e", "e", "t", "i", "n", "g">>}

\* data.get('events', []) of a reply, in the chronological order of the API
EventLists == UNION { [1..n -> EventSummaries] : n \in 0..MaxEvents }

\* CalendarTool._format_events_response: one block per event of the reply,
\* in the order of the reply
format_events_response(events_) == events_

NoIntent == Intent("none", 0)

IntentIdle ==
  /\ query = <<>>
  /\ cal_enabled = TRUE
  /\ cal_api_url = "url"
  /\ intent_pc = "idle"
  /\ can_handle_result = FALSE
  /\ weather_result = FALSE
  /\ quotes_result = FALSE
  /\ lib_can_handle = FALSE
  /\ endpoint = NoEndpoint
  /\ intent = NoIntent
  /\ events = <<>>
  /\ presented = <<>>

IntentInit ==
  /\ query \in Queries
  /\ cal_enabled \in BOOLEAN
  /\ cal_api_url \in {"", "url"}
  /\ intent_pc = "input"
  /\ can_handle_result = FALSE
  /\ weather_result = FALSE
  /\ quotes_result = FALSE
  /\ lib_can_handle = FALSE
  /\ endpoint = NoEndpoint
  /\ intent = NoIntent
  /\ events = <<>>
  /\ presented = <<>>

\* tool.can_handle(query), analyzer.can_handle(query)
CanHandle ==
  /\ intent_pc = "input"
  /\ can_handle_result' = calendar_can_handle(cal_enabled, cal_api_url, query)
  /\ weather_result' = weather_can_handle(cal_enabled, cal_api_url, query)
  /\ quotes_result' = quotes_can_handle(cal_enabled, cal_api_url, query)
  /\ lib_can_handle' = analyzer_can_handle(cal_enabled, query)
  /\ intent_pc' = "classified"
  /\ UNCHANGED <<query, cal_enabled, cal_api_url, endpoint, intent, events,
                 presented>>
  /\ UNCHANGED <<turnVars, chunkVars, sumVars, docVars>>

\* the time-range resolution at the head of CalendarTool.execute and of
\* CalendarAnalyzer.analyze (both return early when disabled / unconfigured)
DetermineEndpoint ==
  /\ intent_pc = "classified"
  /\ cal_enabled
  /\ cal_api_url # ""
  /\ endpoint' = determine_endpoint(query)
  /\ intent' = detect(query)
  /\ intent_pc' = "resolved"
  /\ UNCHANGED <<query, cal_enabled, cal_api_url, can_handle_result,
                 weather_result, quotes_result, lib_can_handle, events,
                 presented>>
  /\ UNCHANGED <<turnVars, chunkVars, sumVars, docVars>>

\* the rest of CalendarTool.execute when the API answers 200 with a list of
\* events: search_term is read from params and the reply is formatted
FetchEvents ==
  /\ intent_pc = "resolved"
  /\ \E evs \in EventLists :
       /\ events' = evs
       /\ presented' = format_events_response(evs)
  /\ intent_pc' = "executed"
  /\ UNCHANGED <<query, cal_enabled, cal_api_url, can_handle_result,
                 weather_result, quotes_result, lib_can_handle, endpoint,
                 intent>>
  /\ UNCHANGED <<turnVars, chunkVars, sumVars, docVars>>

(***************************************************************************)
(* Texts whose content is not inspected are sequences of segments: each    *)
(* segment records where the characters come from and how many they are.   *)
(***************************************************************************)
Seg(kind, src, len) == [kind |-> kind, src |-> src, len |-> len]

RECURSIVE TextLen(_)
TextLen(t) == IF Len(t) = 0 THEN 0 ELSE Head(t).len + TextLen(Tail(t))

\* Python truthiness of a str
NonEmpty(t) == TextLen(t) > 0

\* sep.join(parts)
RECURSIVE Join(_, _)
Join(sep, parts) ==
  IF Len(parts) = 0 THEN <<>>
  ELSE IF Len(parts) = 1 THEN Head(parts)
  ELSE Head(parts) \o <<Seg("sep", "join", Len(sep))>> \o Join(sep, Tail(parts))

(***************************************************************************)
(* Outcomes of one HTTP call to a backing service                          *)
(***************************************************************************)
\* the call fails before a body is read
TransportFailures == {"timeout", "connection", "http_error", "unexpected"}

\* a 200 reply whose body is not what the interface promises: not JSON,
\* JSON that is not an object, an object without the promised fields,
\* promised fields of the wrong type
MalformedBodies == {"non_json", "not_object", "no_fields", "bad_fields"}

FailureOutcomes == TransportFailures \cup MalformedBodies

\* a 200 reply of the promised shape: with data, or reporting nothing
WellFormedBodies == {"ok", "ok_empty"}

CallOutcomes == WellFormedBodies \cup FailureOutcomes

\* str(e) of the exception raised by the call
ExceptionTexts == {"", "Expecting value"}

\* response.json() of a non-JSON body raises requests' JSONDecodeError, a
\* RequestException in requests >= 2.27 and a plain ValueError before
JsonErrorKinds == {"RequestException", "ValueError"}

\* sizes of the payload text of a well-formed reply
DataLens == {40, 5000}

\* self.timeout: TOOL_<NAME>_TIMEOUT, default '10'
ToolTimeout == "10"

\* response.status_code of an error reply
StatusCode == "500"

ApiUrl == "url"

(***************************************************************************)
(* Provider execution                                                      *)
(***************************************************************************)
\* keys of the result dict; data_len is the size of the payload it carries,
\* bad_items says that the payload items are not dicts
ToolResult(tool, outcome, success, error, metadata, data_len, bad_items) ==
  [tool |-> tool, outcome |-> outcome, success |-> success, error |-> error,
   metadata |-> metadata, data_len |-> data_len, bad_items |-> bad_items]

Failed(tool, outcome, error) ==
  ToolResult(tool, outcome, FALSE, error, TRUE, 0, FALSE)

\* CalendarTool._format_events_response for an empty events list
no_events_text(ep) ==
  IF ep.kind = "today" THEN "You have no events scheduled for today."
  ELSE IF ep.kind = "tomorrow" THEN "You have no events scheduled for tomorrow."
  ELSE IF ep.days = <<"7">> THEN "You have no events scheduled for the next week."
  ELSE "You have no upcoming events."

\* CalendarTool.execute of a registered (enabled, configured) tool
calendar_execute(query_, outcome, e, json_error, n) ==
  LET ep == determine_endpoint(query_)
  IN  IF outcome = "timeout"
      THEN Failed("calendar", outcome,
             "Calendar API request timed out after " \o ToolTimeout \o " seconds")
      ELSE IF outcome \in {"connection", "http_error"}
      THEN Failed("calendar", outcome, "Failed to fetch calendar data: " \o e)
      ELSE IF outcome = "non_json"
      THEN IF json_error = "RequestException"
           THEN Failed("calendar", outcome, "Failed to fetch calendar data: " \o e)
           ELSE Failed("calendar", outcome, "Unexpected error: " \o e)
      ELSE IF outcome \in {"unexpected", "not_object", "bad_fields"}
      THEN Failed("calendar", outcome, "Unexpected error: " \o e)
      ELSE IF outcome = "ok"
      THEN ToolResult("calendar", outcome, TRUE, "", TRUE, n, FALSE)
      \* data.get('events', []) is empty: "ok_empty" and "no_fields"
      ELSE ToolResult("calendar", outcome, TRUE, "", TRUE,
                      Len(no_events_text(ep)), FALSE)

\* WeatherTool.execute of a registered tool; msg is the body's 'message'
weather_execute(query_, outcome, e, msg, n) ==
  IF outcome = "timeout"
  THEN Failed("weather", outcome,
         "Weather API request timed out after " \o ToolTimeout \o " seconds")
  ELSE IF outcome = "connection"
  THEN Failed("weather", outcome, "Cannot connect to weather service at " \o ApiUrl)
  ELSE IF outcome = "http_error"
  THEN Failed("weather", outcome, "Weather API returned error: " \o StatusCode)
  ELSE IF outcome \in {"unexpected", "non_json", "not_object"}
  THEN Failed("weather", outcome, "Unexpected error: " \o e)
  ELSE IF outcome = "ok"
  THEN ToolResult("weather", outcome, TRUE, "", TRUE, n, FALSE)
  \* a truthy 'success' of any type is taken; response_text is formatted as is
  ELSE IF outcome = "bad_fields"
  THEN ToolResult("weather", outcome, TRUE, "", TRUE, 1, FALSE)
  \* {"success": false, "message": msg}
  ELSE IF outcome = "ok_empty"
  THEN Failed("weather", outcome, msg)
  \* {}: data.get('message', 'Unknown error from weather API')
  ELSE Failed("weather", outcome, "Unknown error from weather API")

\* QuotesTool.execute of a registered tool
quotes_execute(query_, outcome, e, n) ==
  IF outcome = "timeout"
  THEN Failed("quotes", outcome,
         "Quotes API request timed out after " \o ToolTimeout \o " seconds")
  ELSE IF outcome = "connection"
  THEN Failed("quotes", outcome, "Cannot connect to quotes service at " \o ApiUrl)
  ELSE IF outcome = "http_error"
  THEN Failed("quotes", outcome, "Quotes API returned error: " \o StatusCode)
  ELSE IF outcome \in {"unexpected", "non_json", "not_object"}
  THEN Failed("quotes", outcome, "Unexpected error: " \o e)
  ELSE IF outcome = "ok"
  THEN ToolResult("quotes", outcome, TRUE, "", TRUE, n, FALSE)
  \* a truthy 'quotes' that is not a list of dicts, such as a string
  ELSE IF outcome = "bad_fields"
  THEN ToolResult("quotes", outcome, TRUE, "", TRUE, 1, TRUE)
  \* quotes missing or empty
  ELSE Failed("quotes", outcome, "No quotes found matching the query")

\* CalendarTool.format_for_llm
calendar_format_for_llm(result) ==
  IF ~result.success
  THEN <<Seg("tool_error", "calendar",
             Len("[Calendar tool error: " \o result.error \o "]"))>>
  ELSE <<Seg("tool_data", "calendar",
             Len("[Calendar Information]\n") + result.data_len)>>

\* WeatherTool.format_for_llm
weather_format_for_llm(result) ==
  IF ~result.success
  THEN <<Seg("tool_error", "weather",
             Len("\n\n[Weather data unavailable: " \o result.error \o "]"))>>
  ELSE <<Seg("tool_data", "weather",
             Len("\n\n---\nWEATHER INFORMATION (from PyWeather):\n")
             + result.data_len
             + Len("\n\nTimestamp: ")
             + Len("\n---\n\nUse the weather information above to answer the user's question about weather conditions.\n"))>>

\* QuotesTool.format_for_llm (the caller sees an exception when the quotes
\* are not dicts: quote.get raises AttributeError)
quotes_format_for_llm(result) ==
  IF ~result.success
  THEN <<Seg("tool_error", "quotes",
             Len("\n\n[Quotes unavailable: " \o result.error \o "]"))>>
  ELSE <<Seg("tool_data", "quotes",
             Len("\n\n---\nRELEVANT QUOTES:\n")
             + result.data_len
             + Len("\n---\n\nUse the quotes above to help answer the user's question.\n"))>>

\* line breaks at the start of a formatted output: the weather and quotes
\* outputs begin with "\n\n" (weather_tool.py 204 and 211-213,
\* quotes_tool.py 186 and 195), the calendar outputs with "["
leading_newlines(seg) == IF seg.src \in {"weather", "quotes"} THEN 2 ELSE 0

\* line breaks at its end: the weather and quotes data outputs end with
\* "\n", every error output with "]"; the calendar output is the last part
\* whenever it is present
trailing_newlines(seg) ==
  IF seg.kind = "tool_data" /\ seg.src \in {"weather", "quotes"} THEN 1 ELSE 0

format_raises(result) == result.success /\ result.bad_items

format_for_llm(result) ==
  IF result.tool = "calendar" THEN calendar_format_for_llm(result)
  ELSE IF result.tool = "weather" THEN weather_format_for_llm(result)
  ELSE quotes_format_for_llm(result)

\* tool.can_handle(query) of a registered tool
can_handle(tool, query_) ==
  IF tool = "calendar" THEN calendar_can_handle(TRUE, ApiUrl, query_)
  ELSE IF tool = "weather" THEN weather_can_handle(TRUE, ApiUrl, query_)
  ELSE quotes_can_handle(TRUE, ApiUrl, query_)

\* only the first matching tool is kept
matching_first_only(tools_, query_) ==
  LET all == SelectSeq(tools_, LAMBDA t : can_handle(t, query_))
  IN  IF all = <<>> THEN <<>> ELSE <<Head(all)>>

\* [tool for tool in self.tools if tool.can_handle(query)]
matching(tools_, query_) == SelectSeq(tools_, LAMBDA t : can_handle(t, query_))

\* ToolRouter._initialize_tools appends weather, quotes, calendar in this
\* order, each only when enabled and configured
RegistrationOrder == <<"weather", "quotes", "calendar">>

\* the registries followed: every tool, weather left out, no tool
Registries ==
  { SelectSeq(RegistrationOrder, LAMBDA t : t \in S) :
      S \in { {"weather", "quotes", "calendar"}, {"quotes", "calendar"}, {} } }


(***************************************************************************)
(* The tool router and the HTTP turns (/chat POST, /api/voice-query)       *)
(***************************************************************************)
TurnPrompts ==
  <<<<>>,
     <<"I", "s", " ", "i", "t", " ", "w", "i", "n", "d", "y", " ", "t", "o", "d", "a", "y">>,
     <<"a", " ", "q", "u", "o", "t", "e">>,
     <<"d", "e", "n", "t", "i", "s", "t">>,
     <<"r", "o", "w", "s", " ", "o", "f", " ", "d", "a", "t", "a">>,
     <<"t", "o", "m", "o", "r", "r", "o", "w">>>>

\* queries handed to route_query on its own
RouterPrompts ==
  { TurnPrompts[i] : i \in DOMAIN TurnPrompts }
  \cup { TurnPrompts[2] \o <<" ">> \o TurnPrompts[3] }

\* config.MAX_MESSAGE_HISTORY
MAX_MESSAGE_HISTORY == 6

\* width of the final shorten() in fetch_repo_chunks: the one size limit
\* the code puts on a context
MAX_CONTEXT_CHARS == 4000

\* width of the per-passage shorten() in fetch_repo_chunks
PASSAGE_WIDTH == 800

\* size of a context loaded with the Load Source button
LoadedLens == {5000}

Message(role, kind, empty) == [role |-> role, kind |-> kind, empty |-> empty]

\* session["message_history"][-MAX_MESSAGE_HISTORY:] when longer than that
trim_history(h) ==
  IF Len(h) > MAX_MESSAGE_HISTORY
  THEN SubSeq(h, Len(h) - MAX_MESSAGE_HISTORY + 1, Len(h))
  ELSE h

RouterIdle ==
  /\ matching_tools = <<>>
  /\ tool_idx = 0
  /\ tool_results = <<>>
  /\ context_parts = <<>>
  /\ tool_context = <<>>
  /\ executed = <<>>

RagIdle ==
  /\ tools_handled_query = FALSE
  /\ rag_requests = 0
  /\ rag_outcome = "none"
  /\ rag_chunks = 0
  /\ context_text = <<>>

LlmIdle ==
  /\ combined_context = <<>>
  /\ llm_calls = 0
  /\ llm_outcome = "none"
  /\ response_text = <<>>

\* the locals of a request handler at its entry
FreshLocals ==
  /\ matching_tools' = <<>>
  /\ tool_idx' = 0
  /\ tool_results' = <<>>
  /\ context_parts' = <<>>
  /\ tool_context' = <<>>
  /\ executed' = <<>>
  /\ tools_handled_query' = FALSE
  /\ rag_requests' = 0
  /\ rag_outcome' = "none"
  /\ rag_chunks' = 0
  /\ context_text' = <<>>
  /\ doc_outcome' = "none"
  /\ combined_context' = <<>>
  /\ llm_calls' = 0
  /\ llm_outcome' = "none"
  /\ response_text' = <<>>

TurnIdle ==
  /\ tool_system_enabled = TRUE
  /\ rag_api_url = ""
  /\ tools = <<>>
  /\ route = "none"
  /\ prompt = <<>>
  /\ use_repo_docs = FALSE
  /\ loaded_context = <<>>
  /\ pc = "off"
  /\ RouterIdle
  /\ RagIdle
  /\ doc_outcome = "none"
  /\ LlmIdle
  /\ message_history = <<>>
  /\ turn_result = "none"
  /\ turns = 0

\* the application after start-up: no request handled, empty session
TurnInit ==
  /\ tool_system_enabled \in BOOLEAN
  /\ rag_api_url \in {"", ApiUrl}
  /\ tools \in Registries
  /\ route = "none"
  /\ prompt = <<>>
  /\ use_repo_docs = FALSE
  /\ loaded_context = <<>>
  /\ pc = "idle"
  /\ RouterIdle
  /\ RagIdle
  /\ doc_outcome = "none"
  /\ LlmIdle
  /\ message_history = <<>>
  /\ turn_result = "none"
  /\ turns = 0

\* session["message_history"] of a session in which three requests were
\* answered by the LLM
CarriedHistory ==
  [i \in 1..MAX_MESSAGE_HISTORY |->
     IF i % 2 = 1 THEN Message("user", "prompt", FALSE)
     ELSE Message("assistant", "llm_reply", FALSE)]

\* the application serving a session that already holds CarriedHistory
CarriedInit ==
  /\ tool_system_enabled \in BOOLEAN
  /\ rag_api_url \in {"", ApiUrl}
  /\ tools \in Registries
  /\ route = "none"
  /\ prompt = <<>>
  /\ use_repo_docs = FALSE
  /\ loaded_context = <<>>
  /\ pc = "idle"
  /\ RouterIdle
  /\ RagIdle
  /\ doc_outcome = "none"
  /\ LlmIdle
  /\ message_history = CarriedHistory
  /\ turn_result = "none"
  /\ turns = 0

\* a call of route_query(query) on a router with some registry
RouterInit ==
  /\ tool_system_enabled = TRUE
  /\ rag_api_url = ""
  /\ tools \in Registries
  /\ route = "none"
  /\ prompt \in RouterPrompts
  /\ use_repo_docs = FALSE
  /\ loaded_context = <<>>
  /\ pc = "route"
  /\ RouterIdle
  /\ RagIdle
  /\ doc_outcome = "none"
  /\ LlmIdle
  /\ message_history = <<>>
  /\ turn_result = "none"
  /\ turns = 0

(***************************************************************************)
(* ToolRouter.route_query                                                  *)
(***************************************************************************)
\* lines 132-142: the matching tools; return [], "" when there is none
RouteQuery ==
  /\ pc = "route"
  /\ matching_tools' = matching(tools, prompt)
  /\ tool_results' = <<>>
  /\ context_parts' = <<>>
  /\ tool_context' = <<>>
  /\ tool_idx' = 1
  /\ pc' = IF matching(tools, prompt) = <<>> THEN "routed" ELSE "execute"
  /\ UNCHANGED <<cfgVars, reqVars, executed, ragVars, doc_outcome, llmVars, sessVars>>
  /\ UNCHANGED <<intentVars, chunkVars, sumVars, docVars>>

\* the result of awaiting tool.execute(query) when the call ends as outcome
execute(tool, query_, outcome, e, json_error, msg, n) ==
  IF tool = "calendar" THEN calendar_execute(query_, outcome, e, json_error, n)
  ELSE IF tool = "weather" THEN weather_execute(query_, outcome, e, msg, n)
  ELSE quotes_execute(query_, outcome, e, n)

\* the result appended by the except clause of the loop body
router_failure(tool) ==
  ToolResult(tool, "raised", FALSE, "'str' object has no attribute 'get'",
             TRUE, 0, FALSE)

\* one iteration of the loop over matching_tools (lines 145-168)
ExecuteTool(outcomes, texts) ==
  /\ pc = "execute"
  /\ tool_idx <= Len(matching_tools)
  /\ \E outcome \in outcomes, e \in texts, json_error \in JsonErrorKinds,
        msg \in {"", "Weather station offline"}, n \in DataLens :
       LET tool == matching_tools[tool_idx]
           result == execute(tool, prompt, outcome, e, json_error, msg, n)
       IN  /\ executed' = Append(executed, tool)
           /\ IF format_raises(result)
              THEN /\ tool_results' = tool_results \o <<result, router_failure(tool)>>
                   /\ context_parts' = context_parts
              ELSE /\ tool_results' = Append(tool_results, result)
                   /\ context_parts' =
                        IF NonEmpty(format_for_llm(result))
                        THEN Append(context_parts, format_for_llm(result))
                        ELSE context_parts
  /\ tool_idx' = tool_idx + 1
  /\ UNCHANGED <<cfgVars, reqVars, pc, matching_tools, tool_context, ragVars,
                 doc_outcome, llmVars, sessVars>>
  /\ UNCHANGED <<intentVars, chunkVars, sumVars, docVars>>

\* lines 170-173: combine the contexts and return
RouteReturn ==
  /\ pc = "execute"
  /\ tool_idx > Len(matching_tools)
  /\ tool_context' = Join("\n", context_parts)
  /\ pc' = "routed"
  /\ UNCHANGED <<cfgVars, reqVars, matching_tools, tool_idx, tool_results,
                 context_parts, executed, ragVars, doc_outcome, llmVars,
                 sessVars>>
  /\ UNCHANGED <<intentVars, chunkVars, sumVars, docVars>>


(***************************************************************************)
(* RetrievalClient: utils.fetch_repo_chunks                                *)
(***************************************************************************)
\* textwrap.shorten at the level of sizes: a text that fits keeps its size,
\* a longer one is cut at the last word that fits, slack characters short
\* of the width
shorten(len, width, slack) == IF len <= width THEN len ELSE width - slack

\* replies of POST /query: the sizes of the 'content' of each result, the
\* growth of a content by html.escape, the cut-off slack of shorten, and
\* whether metadata.source is a str
RagReply(contents, escape, slack, source_is_str) ==
  [contents |-> contents, escape |-> escape, slack |-> slack,
   source_is_str |-> source_is_str]

RagReplies ==
  { RagReply(<<>>, 0, 0, TRUE),
    RagReply(<<0>>, 0, 0, TRUE),
    RagReply(<<300>>, 8, 0, TRUE),
    RagReply(<<300, 0>>, 0, 0, FALSE),
    RagReply(<<3000, 3000, 3000, 3000, 3000>>, 0, 3, TRUE),
    RagReply(<<3000, 3000, 3000, 3000, 3000>>, 0, 0, TRUE) }

NoReply == RagReply(<<>>, 0, 0, TRUE)

RagHeader ==
  "Use the following retrieved document excerpts to answer the user query (do not cite unless asked):\n\n"

\* lines 71-78: context_parts, one per result with a non-empty content
RECURSIVE passage_parts(_, _)
passage_parts(contents, reply) ==
  IF Len(contents) = 0 THEN <<>>
  ELSE IF Head(contents) = 0 THEN passage_parts(Tail(contents), reply)
  ELSE <<Len("---\nSource: docs/a.csv\n")
         + shorten(Head(contents) + reply.escape, PASSAGE_WIDTH, reply.slack)
         + Len("\n")>>
       \o passage_parts(Tail(contents), reply)

RECURSIVE SumSeq(_)
SumSeq(ns) == IF Len(ns) = 0 THEN 0 ELSE Head(ns) + SumSeq(Tail(ns))

Retrieved(context, n_chunks, source_is_str) ==
  [context |-> context, chunks |-> n_chunks, source_is_str |-> source_is_str]

NothingRetrieved == Retrieved(<<>>, 0, TRUE)

\* a failed request is reported as a context of its own
fetch_repo_chunks_error_text(url, outcome, reply) ==
  IF url = "" THEN NothingRetrieved
  ELSE IF outcome \in FailureOutcomes
  THEN Retrieved(<<Seg("rag", "error", Len("RAG error"))>>, 0, TRUE)
  ELSE LET parts == passage_parts(reply.contents, reply)
           joined == Len(RagHeader) + SumSeq(parts) + (Len(parts) - 1)
       IN  IF outcome = "ok_empty" \/ Len(reply.contents) = 0 THEN NothingRetrieved
           ELSE IF parts = <<>> THEN NothingRetrieved
           ELSE Retrieved(
                  <<Seg("rag", "query",
                        shorten(joined, MAX_CONTEXT_CHARS, reply.slack))>>,
                  Len(parts), reply.source_is_str)

\* fetch_repo_chunks(prompt, k, rag_api_url, return_chunks=True): the
\* context (<<>> for None), the number of chunks and whether their sources
\* are strings.  Every exception of the request and of the parsing is
\* caught (lines 105-116) and gives (None, []).
fetch_repo_chunks(url, outcome, reply) ==
  IF url = "" THEN NothingRetrieved
  ELSE IF outcome \in FailureOutcomes THEN NothingRetrieved
  ELSE LET parts == passage_parts(reply.contents, reply)
           joined == Len(RagHeader) + SumSeq(parts) + (Len(parts) - 1)
       IN  IF outcome = "ok_empty" \/ Len(reply.contents) = 0 THEN NothingRetrieved
           ELSE IF parts = <<>> THEN NothingRetrieved
           ELSE Retrieved(
                  <<Seg("rag", "query",
                        shorten(joined, MAX_CONTEXT_CHARS, reply.slack))>>,
                  Len(parts), reply.source_is_str)

(***************************************************************************)
(* utils.prompt_model                                                      *)
(***************************************************************************)
\* os.getenv("OLLAMA_TIMEOUT", 600)
OllamaTimeout == "600"

\* the text returned for each outcome of the POST to the LLM endpoint;
\* n is the size of message.content after strip()
prompt_model(outcome, e, n) ==
  IF outcome = "timeout"
  THEN <<Seg("llm_error", "timeout",
             Len("Request timed out after " \o OllamaTimeout \o " seconds ("
                 \o "10" \o " minutes). The model may be processing a very large context. Try:\n\n1. Using a model with larger context window (e.g., qwen3-coder:30b)\n2. Reducing document size\n3. Breaking complex queries into smaller parts\n\nError details: "
                 \o e) + 2)>>
  ELSE IF outcome \in {"connection", "http_error", "unexpected", "non_json",
                       "not_object", "bad_fields"}
  THEN <<Seg("llm_error", outcome, Len("Error communicating with Ollama: " \o e))>>
  ELSE IF outcome = "ok" THEN <<Seg("llm_reply", "model", n)>>
  \* response_data.get("message", {}).get("content", "").strip() of an
  \* empty content ("ok_empty") or of a body without message ("no_fields")
  ELSE <<Seg("llm_reply", "model", 0)>>


(***************************************************************************)
(* routes.chat (POST) and routes.voice_query                               *)
(***************************************************************************)
\* outcomes of the tool calls followed inside a whole turn
TurnToolOutcomes == {"ok", "timeout", "bad_fields"}

\* outcomes of GET /documents: the request carries no timeout, so a
\* service that accepts the connection and never answers is waited for
\* without end ("no_response") instead of ending the call as "timeout"
ListingOutcomes == (CallOutcomes \ {"timeout", "unexpected"}) \cup {"no_response"}

VoiceSystemPrompt ==
  "You are a helpful voice assistant. \n        Provide clear, concise responses suitable for speech. \n        Do not include emoticons or characters that cannot be spoken.\n        Keep answers brief unless detail is specifically requested. \n        Do not include asterisks or * or ** in your response. \n        Respond in a natural, conversational tone.\n        Do not use markdown formatting.\n        If the response contains currency amounts, read them out loud with the currency name. For example, \"$20\" should be read as \"20 dollars\"."

\* the provider results are not consulted
handled_never(results) == FALSE

\* bool(tool_results and any(r.get('success') for r in tool_results))
handled(results) == \E i \in DOMAIN results : results[i].success

\* tool_context + "\n\n" + context when both are present (lines 242-259 and
\* 262-298): the content of the system message, <<>> when none is inserted
combine(tool_ctx, context) ==
  IF NonEmpty(context)
  THEN IF NonEmpty(tool_ctx)
       THEN tool_ctx \o <<Seg("sep", "chat", Len("\n\n"))>> \o context
       ELSE context
  ELSE IF NonEmpty(tool_ctx) THEN tool_ctx
  ELSE <<>>

\* lines 47-104 and 112: the form is read, the user message is appended
\* and the history is cleaned up
ChatPost ==
  /\ pc = "idle"
  /\ turns < MaxTurns
  /\ \E i \in DOMAIN TurnPrompts, docs \in BOOLEAN,
        loaded \in {<<>>} \cup { <<Seg("loaded", "form", n)>> : n \in LoadedLens } :
       /\ route' = "chat"
       /\ prompt' = TurnPrompts[i]
       /\ use_repo_docs' = docs
       /\ loaded_context' = loaded
       /\ IF TurnPrompts[i] = <<>>
          THEN /\ message_history' = message_history
               /\ turn_result' = "rejected"
               /\ pc' = "idle"
          ELSE /\ message_history' =
                    trim_history(Append(message_history,
                                        Message("user", "prompt", FALSE)))
               /\ turn_result' = "running"
               /\ pc' = IF tool_system_enabled THEN "route" ELSE "routed"
  /\ turns' = turns + 1
  /\ FreshLocals
  /\ UNCHANGED cfgVars
  /\ UNCHANGED <<intentVars, chunkVars, sumVars, docVars>>

\* lines 156-298: retrieval and the assembly of the context
ChatRetrieve ==
  /\ pc = "routed"
  /\ route = "chat"
  /\ tools_handled_query' = handled(tool_results)
  /\ IF use_repo_docs /\ ~handled(tool_results)
     THEN IF rag_api_url = ""
          THEN \* lines 169-181: a warning is appended and the turn returns
               /\ message_history' =
                    Append(message_history, Message("assistant", "warning", FALSE))
               /\ turn_result' = "warning"
               /\ pc' = "idle"
               /\ UNCHANGED <<rag_requests, rag_outcome, rag_chunks, context_text,
                              combined_context>>
          ELSE IF NonEmpty(loaded_context)
          THEN /\ context_text' = loaded_context
               /\ combined_context' = combine(tool_context, loaded_context)
               /\ pc' = "llm"
               /\ UNCHANGED <<rag_requests, rag_outcome, rag_chunks,
                              message_history, turn_result>>
          ELSE \* no message ever carries 'hybrid_analysis', so
               \* recent_analyzed_docs is empty and the search is made
               \E outcome \in CallOutcomes, reply \in RagReplies :
                 LET r == fetch_repo_chunks(rag_api_url, outcome, reply)
                 IN  /\ outcome # "ok" => reply = NoReply
                     /\ rag_requests' = rag_requests + 1
                     /\ rag_outcome' = outcome
                     /\ rag_chunks' = r.chunks
                     /\ context_text' = r.context
                     /\ message_history' = message_history
                     /\ IF r.chunks > 0 /\ ~r.source_is_str
                        THEN \* line 231: '.' in source raises TypeError
                             /\ turn_result' = "aborted"
                             /\ pc' = "idle"
                             /\ combined_context' = combined_context
                        ELSE /\ turn_result' = turn_result
                             /\ pc' = "llm"
                             /\ combined_context' = combine(tool_context, r.context)
     ELSE /\ combined_context' = combine(tool_context, loaded_context)
          /\ pc' = IF rag_api_url # "" THEN "docs" ELSE "llm"
          /\ UNCHANGED <<rag_requests, rag_outcome, rag_chunks, context_text,
                         message_history, turn_result>>
  /\ UNCHANGED <<cfgVars, reqVars, routerVars, doc_outcome, llm_calls,
                 llm_outcome, response_text, turns>>
  /\ UNCHANGED <<intentVars, chunkVars, sumVars, docVars>>

\* lines 300-329: the list of documents for the Load button; only
\* requests.RequestException is caught
ChatDocuments ==
  /\ pc = "docs"
  /\ \E outcome \in ListingOutcomes, json_error \in JsonErrorKinds :
       /\ doc_outcome' = outcome
       /\ IF \/ outcome \in {"not_object", "bad_fields"}
             \/ outcome = "non_json" /\ json_error = "ValueError"
          THEN turn_result' = "aborted" /\ pc' = "idle"
          ELSE IF outcome = "no_response"
          THEN \* line 305: requests.get never returns
               turn_result' = turn_result /\ pc' = "blocked"
          ELSE turn_result' = turn_result /\ pc' = "llm"
  /\ UNCHANGED <<cfgVars, reqVars, routerVars, ragVars, llmVars,
                 message_history, turns>>
  /\ UNCHANGED <<intentVars, chunkVars, sumVars, docVars>>

\* lines 331-399: the LLM call and the assistant message
ChatLlm ==
  /\ pc = "llm"
  /\ route = "chat"
  /\ \E outcome \in CallOutcomes, e \in ExceptionTexts, n \in DataLens :
       LET content == prompt_model(outcome, e, n)
       IN  /\ llm_outcome' = outcome
           /\ response_text' = content
           /\ message_history' =
                trim_history(Append(message_history,
                  Message("assistant", Head(content).kind, ~NonEmpty(content))))
  /\ llm_calls' = llm_calls + 1
  /\ turn_result' = "answered"
  /\ pc' = "idle"
  /\ UNCHANGED <<cfgVars, reqVars, routerVars, ragVars, doc_outcome,
                 combined_context, turns>>
  /\ UNCHANGED <<intentVars, chunkVars, sumVars, docVars>>

\* lines 1092-1162: the text is read; voice queries keep no history
VoicePost ==
  /\ pc = "idle"
  /\ turns < MaxTurns
  /\ \E i \in DOMAIN TurnPrompts, rag \in BOOLEAN :
       /\ route' = "voice"
       /\ prompt' = TurnPrompts[i]
       /\ use_repo_docs' = rag
       /\ loaded_context' = <<>>
       /\ IF TurnPrompts[i] = <<>>
          THEN turn_result' = "rejected" /\ pc' = "idle"
          ELSE /\ turn_result' = "running"
               /\ pc' = IF tool_system_enabled THEN "route" ELSE "routed"
  /\ turns' = turns + 1
  /\ FreshLocals
  /\ UNCHANGED <<cfgVars, message_history>>
  /\ UNCHANGED <<intentVars, chunkVars, sumVars, docVars>>

\* lines 1180-1222: retrieval and the assembly of the system message
VoiceRetrieve ==
  /\ pc = "routed"
  /\ route = "voice"
  /\ tools_handled_query' = handled(tool_results)
  /\ \E outcome \in CallOutcomes, reply \in RagReplies :
       LET search == use_repo_docs /\ ~handled(tool_results) /\ rag_api_url # ""
           r == IF search THEN fetch_repo_chunks(rag_api_url, outcome, reply)
                ELSE NothingRetrieved
       IN  /\ outcome # "ok" => reply = NoReply
           /\ ~search => outcome = "ok"
           /\ rag_requests' = IF search THEN rag_requests + 1 ELSE rag_requests
           /\ rag_outcome' = IF search THEN outcome ELSE rag_outcome
           /\ rag_chunks' = rag_chunks
           /\ context_text' = r.context
           /\ combined_context' =
                <<Seg("voice_prompt", "voice", Len(VoiceSystemPrompt))>>
                \o (IF NonEmpty(tool_context)
                    THEN <<Seg("sep", "voice", Len("\n\n"))>> \o tool_context
                    ELSE <<>>)
                \o (IF NonEmpty(r.context) /\ ~handled(tool_results)
                    THEN <<Seg("sep", "voice", Len("\n\n"))>> \o r.context
                    ELSE <<>>)
  /\ pc' = "llm"
  /\ UNCHANGED <<cfgVars, reqVars, routerVars, doc_outcome, llm_calls,
                 llm_outcome, response_text, sessVars>>
  /\ UNCHANGED <<intentVars, chunkVars, sumVars, docVars>>

\* lines 1224-1284: the LLM call and the JSON response
VoiceLlm ==
  /\ pc = "llm"
  /\ route = "voice"
  /\ \E outcome \in CallOutcomes, e \in ExceptionTexts, n \in DataLens :
       /\ llm_outcome' = outcome
       /\ response_text' = prompt_model(outcome, e, n)
  /\ llm_calls' = llm_calls + 1
  /\ turn_result' = "answered"
  /\ pc' = "idle"
  /\ UNCHANGED <<cfgVars, reqVars, routerVars, ragVars, doc_outcome,
                 combined_context, message_history, turns>>
  /\ UNCHANGED <<intentVars, chunkVars, sumVars, docVars>>

\* the router inside a turn, and on its own with every outcome
ExecuteToolInTurn ==
  /\ route \in {"chat", "voice"}
  /\ ExecuteTool(TurnToolOutcomes, {"Expecting value"})

ExecuteToolAlone ==
  /\ route = "none"
  /\ ExecuteTool(CallOutcomes, ExceptionTexts)


(***************************************************************************)
(* DocumentChunker: document_processor.chunk_text                          *)
(***************************************************************************)
\* width of the window searched for a sentence boundary (line 33)
SEARCH_WINDOW == 1000

\* characters of the chunked texts: a letter, a blank, a sentence end and
\* a line break
TextChars == {"a", " ", ".", "\n"}

Texts == UNION { [1..n -> TextChars] : n \in 0..MaxTextLen }

\* a slice index as Python normalises it against a text of n characters
PyIndex(i, n) == IF i < 0 THEN Max(i + n, 0) ELSE Min(i, n)

\* text[a:b]
Slice(text_, a, b) ==
  SubSeq(text_, PyIndex(a, Len(text_)) + 1, PyIndex(b, Len(text_)))

\* text.rfind(sub, a, b): the highest index in the slice where sub starts,
\* -1 when there is none
rfind(text_, sub, a, b) ==
  LET lo == PyIndex(a, Len(text_))
      hi == PyIndex(b, Len(text_))
      hits == { i \in lo..(hi - Len(sub)) :
                  SubSeq(text_, i + 1, i + Len(sub)) = sub }
  IN  IF hits = {} THEN -1 ELSE CHOOSE i \in hits : \A j \in hits : j <= i

\* str.strip()
RECURSIVE lstrip(_)
lstrip(s) == IF Len(s) > 0 /\ IsSpace(Head(s)) THEN lstrip(Tail(s)) ELSE s

RECURSIVE rstrip(_)
rstrip(s) ==
  IF Len(s) > 0 /\ IsSpace(s[Len(s)]) THEN rstrip(SubSeq(s, 1, Len(s) - 1)) ELSE s

\* strip() left out: the candidate is kept as cut
strip_nothing(s) == s

strip(s) == rstrip(lstrip(s))

Max4(a, b, c, d) == Max(Max(a, b), Max(c, d))

\* a cut one character past chunk_size
chunk_end_one_more(text_, start_, size) ==
  Min(start_ + size + 1, Len(text_))

\* lines 28-41: the end of the chunk that begins at start_
chunk_end(text_, start_, size) ==
  LET raw == Min(start_ + size, Len(text_))
      search_start == Max(raw - SEARCH_WINDOW, start_)
      last_sentence ==
        Max4(rfind(text_, <<".">>, search_start, raw),
             rfind(text_, <<"!">>, search_start, raw),
             rfind(text_, <<"?">>, search_start, raw),
             rfind(text_, <<"\n", "\n">>, search_start, raw))
  IN  IF raw < Len(text_) /\ last_sentence > search_start
      THEN last_sentence + 1
      ELSE raw

\* the next chunk beginning where the previous one ended
next_start_no_overlap(text_, end_, overlap_) == end_

\* line 47: where the next chunk begins
next_start(text_, end_, overlap_) ==
  IF end_ < Len(text_) THEN end_ - overlap_ ELSE end_

ChunkIdle ==
  /\ text = <<>>
  /\ chunk_size = 1
  /\ overlap = 0
  /\ chunk_pc = "off"
  /\ start = 0
  /\ chunks = <<>>
  /\ spans = <<>>

\* a call chunk_text(text, chunk_size, overlap), chunk_size > 0, overlap >= 0
ChunkInit ==
  /\ text \in Texts
  /\ chunk_size \in 1..MaxChunkSize
  /\ overlap \in 0..MaxChunkSize
  /\ chunk_pc = "call"
  /\ start = 0
  /\ chunks = <<>>
  /\ spans = <<>>

\* the run has left the part of the state space that is followed
ChunkOutOfBounds == Len(chunks) >= MaxChunks \/ start < 0 - MaxBack

\* the short text returned stripped
ChunkCall_stripped ==
  /\ chunk_pc = "call"
  /\ IF Len(text) <= chunk_size
     THEN /\ chunks' = <<strip(text)>>
          /\ spans' = <<<<0, Len(text)>>>>
          /\ chunk_pc' = "done"
     ELSE /\ chunks' = <<>>
          /\ spans' = <<>>
          /\ chunk_pc' = "loop"
  /\ start' = 0
  /\ UNCHANGED <<text, chunk_size, overlap>>
  /\ UNCHANGED <<intentVars, turnVars, sumVars, docVars>>

\* lines 21-25
ChunkCall ==
  /\ chunk_pc = "call"
  /\ IF Len(text) <= chunk_size
     THEN /\ chunks' = <<text>>
          /\ spans' = <<<<0, Len(text)>>>>
          /\ chunk_pc' = "done"
     ELSE /\ chunks' = <<>>
          /\ spans' = <<>>
          /\ chunk_pc' = "loop"
  /\ start' = 0
  /\ UNCHANGED <<text, chunk_size, overlap>>
  /\ UNCHANGED <<intentVars, turnVars, sumVars, docVars>>

\* line 27: the loop condition holds
ChunkTest ==
  /\ chunk_pc = "loop"
  /\ start < Len(text)
  /\ ~ChunkOutOfBounds
  /\ chunk_pc' = "body"
  /\ UNCHANGED <<text, chunk_size, overlap, start, chunks, spans>>
  /\ UNCHANGED <<intentVars, turnVars, sumVars, docVars>>

\* the loop body putting each chunk in front of the list
ChunkStep_prepend ==
  /\ chunk_pc = "body"
  /\ LET end == chunk_end(text, start, chunk_size)
         chunk == strip(Slice(text, start, end))
     IN  /\ chunks' = IF Len(chunk) > 0 THEN <<chunk>> \o chunks ELSE chunks
         /\ spans' = IF Len(chunk) > 0 THEN <<<<start, end>>>> \o spans ELSE spans
         /\ start' = next_start(text, end, overlap)
  /\ chunk_pc' = "loop"
  /\ UNCHANGED <<text, chunk_size, overlap>>
  /\ UNCHANGED <<intentVars, turnVars, sumVars, docVars>>

\* the body of the while loop (lines 28-47)
ChunkStep ==
  /\ chunk_pc = "body"
  /\ LET end == chunk_end(text, start, chunk_size)
         chunk == strip(Slice(text, start, end))
     IN  /\ chunks' = IF Len(chunk) > 0 THEN Append(chunks, chunk) ELSE chunks
         /\ spans' = IF Len(chunk) > 0 THEN Append(spans, <<start, end>>) ELSE spans
         /\ start' = next_start(text, end, overlap)
  /\ chunk_pc' = "loop"
  /\ UNCHANGED <<text, chunk_size, overlap>>
  /\ UNCHANGED <<intentVars, turnVars, sumVars, docVars>>

\* line 27 and 49: the loop condition fails and chunks is returned
ChunkReturn ==
  /\ chunk_pc = "loop"
  /\ start >= Len(text)
  /\ chunk_pc' = "done"
  /\ UNCHANGED <<text, chunk_size, overlap, start, chunks, spans>>
  /\ UNCHANGED <<intentVars, turnVars, sumVars, docVars>>


(***************************************************************************)
(* chunk_text as summarize_large_document calls it.  The text is followed  *)
(* by its length; the sentence boundary found in the search window is any  *)
(* of a few positions of the window, or none.                              *)
(***************************************************************************)
\* line 92: chunk_text(document_content, chunk_size=40000, overlap=3000)
SUMMARY_CHUNK_SIZE == 40000

SUMMARY_OVERLAP == 3000

\* len(document_content) of the documents followed
DocLens ==
  {0, SUMMARY_CHUNK_SIZE, SUMMARY_CHUNK_SIZE + 1, 2 * SUMMARY_CHUNK_SIZE,
   MaxDocLen - 1, MaxDocLen}

\* distances from search_start at which the last boundary is found
BoundaryOffsets == {0, 1, 2, 500, SEARCH_WINDOW - 2, SEARCH_WINDOW - 1}

\* line 28
window_end(len_, start_) == Min(start_ + SUMMARY_CHUNK_SIZE, len_)

\* the search reaches back twice the window
window_search_start_wide(start_, end_) == Max(end_ - 2 * SEARCH_WINDOW, start_)

\* line 33
window_search_start(start_, end_) == Max(end_ - SEARCH_WINDOW, start_)

\* lines 34-39: the values max(rfind...) can take over the texts: -1 when
\* no boundary lies in text[search_start:end], else the index of one
last_sentences(search_start, end_) ==
  {0 - 1} \cup { search_start + k : k \in { j \in BoundaryOffsets : search_start + j < end_ } }

\* lines 31-41: the end of the window for a boundary found at last_sentence
window_cut(len_, start_, last_sentence) ==
  LET end_ == window_end(len_, start_)
  IN  IF end_ < len_ /\ last_sentence > window_search_start(start_, end_)
      THEN last_sentence + 1
      ELSE end_

\* line 47
window_next_start(len_, end_) ==
  IF end_ < len_ THEN end_ - SUMMARY_OVERLAP ELSE end_

DocIdle ==
  /\ doc_len = 0
  /\ doc_pc = "off"
  /\ doc_start = 0
  /\ doc_windows = <<>>

\* the call of line 92 on a document of some length
DocInit ==
  /\ doc_len \in DocLens
  /\ doc_pc = "call"
  /\ doc_start = 0
  /\ doc_windows = <<>>

\* lines 21-25
DocCall ==
  /\ doc_pc = "call"
  /\ IF doc_len <= SUMMARY_CHUNK_SIZE
     THEN /\ doc_windows' = <<<<0, doc_len>>>>
          /\ doc_pc' = "done"
     ELSE /\ doc_windows' = <<>>
          /\ doc_pc' = "loop"
  /\ doc_start' = 0
  /\ UNCHANGED doc_len
  /\ UNCHANGED <<intentVars, turnVars, chunkVars, sumVars>>

\* one pass of the while loop (lines 27-47)
DocStep ==
  /\ doc_pc = "loop"
  /\ doc_start < doc_len
  /\ LET raw == window_end(doc_len, doc_start)
     IN  \E last_sentence \in
              last_sentences(window_search_start(doc_start, raw), raw) :
           LET end_ == window_cut(doc_len, doc_start, last_sentence)
           IN  /\ doc_windows' = Append(doc_windows, <<doc_start, end_>>)
               /\ doc_start' = window_next_start(doc_len, end_)
  /\ UNCHANGED <<doc_len, doc_pc>>
  /\ UNCHANGED <<intentVars, turnVars, chunkVars, sumVars>>

\* line 27 fails, line 49
DocReturn ==
  /\ doc_pc = "loop"
  /\ doc_start >= doc_len
  /\ doc_pc' = "done"
  /\ UNCHANGED <<doc_len, doc_start, doc_windows>>
  /\ UNCHANGED <<intentVars, turnVars, chunkVars, sumVars>>


(***************************************************************************)
(* MapReduceSummarizer: document_processor.summarize_large_document        *)
(***************************************************************************)
\* line 99: only the first chunk is looked at above this many chunks
HARD_CAP == 10

\* line 131: the score from which a chunk counts as relevant
RELEVANCE_THRESHOLD == 6

\* line 146: entries of relevant_summaries that reach the synthesis prompt
TOP_SECTIONS == 5

\* line 102: the scale the scorer is asked to rate on
SCORE_SCALE == 10

SCORE_MARKER ==
  <<"R", "e", "l", "e", "v", "a", "n", "c", "e", " ", "S", "c", "o", "r",
    "e", ":">>

\* replies to a scoring request: what the model wrote, or the text
\* prompt_model returns when the request failed (utils.py line 308)
ScorerReplies == {"relevant", "threshold", "low", "percent", "word", "error"}

RelevantReply ==
  <<"R", "e", "l", "e", "v", "a", "n", "c", "e", " ", "S", "c", "o", "r",
    "e", ":", " ", "9", "/", "1", "0", "\n", "S", "u", "m", "m", "a", "r",
    "y", ":", " ", "s">>

ThresholdReply ==
  <<"R", "e", "l", "e", "v", "a", "n", "c", "e", " ", "S", "c", "o", "r",
    "e", ":", " ", "6", "/", "1", "0", "\n", "S", "u", "m", "m", "a", "r",
    "y", ":", " ", "s">>

LowReply ==
  <<"R", "e", "l", "e", "v", "a", "n", "c", "e", " ", "S", "c", "o", "r",
    "e", ":", " ", "5", "/", "1", "0">>

PercentReply ==
  <<"R", "e", "l", "e", "v", "a", "n", "c", "e", " ", "S", "c", "o", "r",
    "e", ":", " ", "8", "5", "/", "1", "0", "0">>

WordReply ==
  <<"R", "e", "l", "e", "v", "a", "n", "c", "e", " ", "S", "c", "o", "r",
    "e", ":", " ", "h", "i", "g", "h">>

ErrorReply ==
  <<"E", "r", "r", "o", "r", " ", "c", "o", "m", "m", "u", "n", "i", "c",
    "a", "t", "i", "n", "g", " ", "w", "i", "t", "h", " ", "O", "l", "l",
    "a", "m", "a", ":", " ", "e">>

reply_text(reply) ==
  CASE reply = "relevant" -> RelevantReply
    [] reply = "threshold" -> ThresholdReply
    [] reply = "low" -> LowReply
    [] reply = "percent" -> PercentReply
    [] reply = "word" -> WordReply
    [] OTHER -> ErrorReply

\* s.find(sub): the number of characters before the first sub, -1 if none
find(s, sub) ==
  LET hits == { i \in 0..(Len(s) - Len(sub)) :
                  SubSeq(s, i + 1, i + Len(sub)) = sub }
  IN  IF hits = {} THEN -1 ELSE CHOOSE i \in hits : \A j \in hits : i <= j

\* s.split(sep)[0]
split_first(s, sep) ==
  IF find(s, sep) = -1 THEN s ELSE SubSeq(s, 1, find(s, sep))

\* s.split(sep)[1], for a text that holds sep
split_second(s, sep) ==
  split_first(SubSeq(s, find(s, sep) + Len(sep) + 1, Len(s)), sep)

\* int(s) accepts an optional sign followed by decimal digits
is_int_literal(s) ==
  LET digits == IF Len(s) > 0 /\ s[1] \in {"+", "-"} THEN Tail(s) ELSE s
  IN  Len(digits) > 0 /\ \A k \in 1..Len(digits) : IsDigit(digits[k])

int_of(s) ==
  IF s[1] = "-" THEN 0 - StrToInt(Tail(s))
  ELSE IF s[1] = "+" THEN StrToInt(Tail(s))
  ELSE StrToInt(s)

\* the unparsable score counted as the highest one
parse_score_unparsed_top(relevance_response) ==
  IF ~Contains(relevance_response, SCORE_MARKER) THEN 0
  ELSE LET score_line ==
             split_first(split_second(relevance_response, SCORE_MARKER), <<"\n">>)
           literal == strip(split_first(score_line, <<"/">>))
       IN  IF is_int_literal(literal) THEN int_of(literal) ELSE SCORE_SCALE

\* lines 121-127: the score read from a reply
parse_score(relevance_response) ==
  IF ~Contains(relevance_response, SCORE_MARKER) THEN 0
  ELSE LET score_line ==
             split_first(split_second(relevance_response, SCORE_MARKER), <<"\n">>)
           literal == strip(split_first(score_line, <<"/">>))
       IN  IF is_int_literal(literal) THEN int_of(literal) ELSE 0

\* the threshold itself left out
is_relevant_above(score) == score > RELEVANCE_THRESHOLD

\* line 131
is_relevant(score) == score >= RELEVANCE_THRESHOLD

\* line 99: the loop stops before chunk i
capped(n, i) == n > HARD_CAP /\ i > 0

\* relevant_summaries[:5]
top_sections(summaries) == SubSeq(summaries, 1, Min(Len(summaries), TOP_SECTIONS))

\* outcomes of the overview and the synthesis request: prompt_model returns
\* the model's text or its own error text, it never raises
SummaryLlmOutcomes == {"ok", "error"}

\* numbers of chunks of the documents followed
DocChunkCounts == (0..MaxDocChunks) \cup {HARD_CAP + 1}

NoResult == [success |-> FALSE, response |-> "none"]

SumIdle ==
  /\ sum_pc = "off"
  /\ total_chunks = 0
  /\ overview_response = "none"
  /\ chunk_index = 0
  /\ scorer_replies = <<>>
  /\ chunk_relevance_scores = <<>>
  /\ relevant_summaries = <<>>
  /\ sections_analysis = <<>>
  /\ synthesis_calls = 0
  /\ summary_result = NoResult

\* a call summarize_large_document(document_path, document_content, question)
SumInit ==
  /\ sum_pc = "call"
  /\ total_chunks \in DocChunkCounts
  /\ overview_response = "none"
  /\ chunk_index = 0
  /\ scorer_replies = <<>>
  /\ chunk_relevance_scores = <<>>
  /\ relevant_summaries = <<>>
  /\ sections_analysis = <<>>
  /\ synthesis_calls = 0
  /\ summary_result = NoResult

\* lines 84-95: the overview request, chunk_text and the empty lists
SumOverview ==
  /\ sum_pc = "call"
  /\ \E outcome \in SummaryLlmOutcomes : overview_response' = outcome
  /\ chunk_index' = 0
  /\ chunk_relevance_scores' = <<>>
  /\ relevant_summaries' = <<>>
  /\ sum_pc' = "loop"
  /\ UNCHANGED <<total_chunks, scorer_replies, sections_analysis,
                 synthesis_calls, summary_result>>
  /\ UNCHANGED <<intentVars, turnVars, chunkVars, docVars>>

\* lines 98-137: one pass of the loop, chunk i scored
SumScore ==
  /\ sum_pc = "loop"
  /\ chunk_index < total_chunks
  /\ ~capped(total_chunks, chunk_index)
  /\ \E reply \in ScorerReplies :
       LET score == parse_score(reply_text(reply))
       IN  /\ scorer_replies' = Append(scorer_replies, reply)
           /\ chunk_relevance_scores' =
                Append(chunk_relevance_scores, <<chunk_index, score>>)
           /\ relevant_summaries' =
                IF is_relevant(score)
                THEN Append(relevant_summaries,
                            [chunk_index |-> chunk_index,
                             relevance_score |-> score,
                             summary |-> reply])
                ELSE relevant_summaries
  /\ chunk_index' = chunk_index + 1
  /\ UNCHANGED <<sum_pc, total_chunks, overview_response, sections_analysis,
                 synthesis_calls, summary_result>>
  /\ UNCHANGED <<intentVars, turnVars, chunkVars, docVars>>

\* the loop has ended: every chunk was visited or line 100 left it
SumLoopDone ==
  /\ sum_pc = "loop"
  /\ chunk_index >= total_chunks \/ capped(total_chunks, chunk_index)

\* lines 169-177
SumResult(final_response) ==
  [success |-> TRUE,
   response |-> final_response,
   document_overview |-> overview_response,
   relevant_chunks |-> relevant_summaries,
   total_chunks |-> total_chunks,
   chunks_analyzed |-> Min(total_chunks, HARD_CAP)]

\* lines 144-165 and 169-177: the synthesis request over the first entries
SumSynthesize ==
  /\ SumLoopDone
  /\ relevant_summaries # <<>>
  /\ sections_analysis' = top_sections(relevant_summaries)
  /\ synthesis_calls' = synthesis_calls + 1
  /\ \E outcome \in SummaryLlmOutcomes :
       summary_result' =
         SumResult(IF outcome = "ok" THEN "synthesis" ELSE "llm_error")
  /\ sum_pc' = "done"
  /\ UNCHANGED <<total_chunks, overview_response, chunk_index, scorer_replies,
                 chunk_relevance_scores, relevant_summaries>>
  /\ UNCHANGED <<intentVars, turnVars, chunkVars, docVars>>

\* lines 166-177: no relevant section, the answer quotes the overview
SumFallback ==
  /\ SumLoopDone
  /\ relevant_summaries = <<>>
  /\ summary_result' = SumResult("not_found_with_overview")
  /\ sum_pc' = "done"
  /\ UNCHANGED <<total_chunks, overview_response, chunk_index, scorer_replies,
                 chunk_relevance_scores, relevant_summaries, sections_analysis,
                 synthesis_calls>>
  /\ UNCHANGED <<intentVars, turnVars, chunkVars, docVars>>

(***************************************************************************)
(* Properties                                                              *)
(***************************************************************************)
\* queries named by the properties
Q_tomorrow_and_next_week ==
  <<"t", "o", "m", "o", "r", "r", "o", "w", " ", "a", "n", "d", " ", "n", "e", "x", "t", " ", "w", "e", "e", "k">>

Q_next_week_next_2_weeks ==
  <<"n", "e", "x", "t", " ", "w", "e", "e", "k", " ", "n", "e", "x", "t", " ", "2", " ", "w", "e", "e", "k", "s">>

Q_free_file ==
  <<"f", "r", "e", "e", " ", "f", "i", "l", "e">>

\* C1: in every chat turn the context injected into the LLM prompt (tool
\* context, retrieved passages and loaded document content, combined) is
\* at most MAX_CONTEXT_CHARS characters long.
C1_ContextWithinBudget ==
  route = "chat" => TextLen(combined_context) <= MAX_CONTEXT_CHARS

\* C2: whenever the backing call of a provider fails (timeout, connection
\* failure, HTTP error status, malformed or non-JSON body, unexpected
\* exception), the result of execute has success = false and a non-empty
\* error message.
C2_FailuresCaptured ==
  \A i \in DOMAIN tool_results :
    tool_results[i].outcome \in FailureOutcomes
      => /\ ~tool_results[i].success
         /\ tool_results[i].error # ""

\* the number of times tool t was executed
C3Count(t) == Cardinality({ i \in DOMAIN executed : executed[i] = t })

\* the position of tool t in the registry
C3Position(t) == CHOOSE i \in DOMAIN tools : tools[i] = t

\* C3: route_query executes exactly the registered providers whose
\* can_handle(query) is true, each once and in registration order, whatever
\* fails in a provider, and returns; with no matching provider it returns
\* ([], "") and executes nothing.
C3_RouterRunsMatching ==
  (route = "none" /\ pc = "routed")
    => /\ \A t \in {"weather", "quotes", "calendar"} :
            C3Count(t) =
              IF (\E i \in DOMAIN tools : tools[i] = t) /\ can_handle(t, prompt)
              THEN 1 ELSE 0
       /\ \A i, j \in DOMAIN executed :
            i < j => C3Position(executed[i]) < C3Position(executed[j])
       /\ (executed = <<>>) => (tool_results = <<>> /\ tool_context = <<>>)

\* a matching provider failed and the providers after it were still executed
C3_Witness ==
  /\ route = "none"
  /\ pc = "routed"
  /\ executed = <<"weather", "quotes", "calendar">>
  /\ ~tool_results[1].success
  /\ tool_results[Len(tool_results)].success

\* every number N of a match of  next N <unit>s?  in q
C4Numbers(q, unit) ==
  { StrToInt(d) : d \in UNION { NumDigitAt(q, p, unit) : p \in 0..Len(q) } }
  \cup UNION { NumWordAt(q, p, unit) : p \in 0..Len(q) }

\* the earliest rule of the fixed order whose predicate holds on q
C4Rule(q, rule1) ==
  IF rule1 THEN 1
  ELSE IF C4Numbers(q, W_week) # {} THEN 2
  ELSE IF C4Numbers(q, W_day) # {} THEN 3
  ELSE IF Contains(q, W_next_month) THEN 4
  ELSE IF Contains(q, W_this_week) THEN 5
  ELSE IF Contains(q, W_next_week) /\ ~Contains(q, W_weeks) THEN 6
  ELSE IF Contains(q, W_tomorrow) THEN 7
  ELSE IF Contains(q, W_today) \/ Contains(q, W_tonight) THEN 8
  ELSE 9

\* the numbers of days rule r allows on q
C4Days(r, q) ==
  IF r = 1 THEN {30}
  ELSE IF r = 2 THEN { 7 * n : n \in C4Numbers(q, W_week) }
  ELSE IF r = 3 THEN C4Numbers(q, W_day)
  ELSE IF r = 4 THEN {30}
  ELSE IF r = 5 THEN {7}
  ELSE IF r = 6 THEN {14}
  ELSE IF r = 9 THEN {7}
  ELSE {}

C5Secondary ==
  <<<<"w", "h", "e", "n">>,
     <<"w", "h", "a", "t", " ", "t", "i", "m", "e">>,
     <<"a", "m", " ", "i", " ", "b", "u", "s", "y">>,
     <<"f", "r", "e", "e">>,
     <<"a", "v", "a", "i", "l", "a", "b", "l", "e">>>>

C5Document ==
  <<<<"d", "o", "c", "u", "m", "e", "n", "t">>,
     <<"f", "i", "l", "e">>,
     <<"p", "d", "f">>,
     <<"e", "m", "a", "i", "l">>,
     <<"a", "t", "t", "a", "c", "h", "m", "e", "n", "t">>>>

C5Matches(q) ==
  \/ AnyIn(q, primary_keywords)
  \/ AnyIn(q, C5Secondary) /\ ~AnyIn(q, C5Document)
  \/ NextEventPattern(q)

\* C5: an enabled and configured calendar provider handles q exactly when
\* the lower-cased q has a primary keyword, or a secondary keyword (when,
\* what time, am i busy, free, available) and no document keyword
\* (document, file, pdf, email, attachment), or matches 'when is (the|my)
\* next'; a disabled or URL-less provider handles nothing.
C5_CalendarCanHandle ==
  intent_pc \in {"classified", "resolved"}
    => /\ can_handle_result =
            (cal_enabled /\ cal_api_url # "" /\ C5Matches(Lower(query)))
       /\ lib_can_handle = (cal_enabled /\ C5Matches(Lower(query)))

\* a secondary keyword was excluded by a document keyword
C5_Witness ==
  /\ intent_pc = "classified"
  /\ cal_enabled
  /\ cal_api_url # ""
  /\ Lower(query) = Q_free_file
  /\ ~can_handle_result

\* C6: in a chat or voice turn the retrieval request is made only if
\* retrieval is enabled and no provider result of the turn has success =
\* true; when a provider succeeded no request is made and no retrieved
\* passage is in the context.
C6_RetrievalSkippedWhenHandled ==
  /\ rag_requests > 0 => use_repo_docs
  /\ (\E i \in DOMAIN tool_results : tool_results[i].success)
       => /\ rag_requests = 0
          /\ \A i \in DOMAIN combined_context : combined_context[i].kind # "rag"

\* retrieval was enabled and configured, a provider succeeded, and the LLM
\* was called without any retrieval request
C6_Witness ==
  /\ use_repo_docs
  /\ rag_api_url # ""
  /\ \E i \in DOMAIN tool_results : tool_results[i].success
  /\ rag_requests = 0
  /\ llm_calls = 1
  /\ NonEmpty(combined_context)

\* C7: a /chat turn with a non-empty prompt is not aborted by provider,
\* retrieval or document-service failures: it reaches the LLM call and
\* appends an assistant message.  (The turn that ends with the warning
\* about a missing RAG_API_URL is left aside.)
C7_TurnReachesLlm ==
  (route = "chat" /\ pc = "idle" /\ turn_result \in {"answered", "aborted"})
    => /\ turn_result = "answered"
       /\ llm_calls = 1
       /\ message_history[Len(message_history)].role = "assistant"

\* C8: when the LLM call fails (timeout, connection error, HTTP error
\* status, malformed response body) the response text of the turn is a
\* non-empty error message.
C8_FailedLlmShowsError ==
  (llm_calls = 1 /\ llm_outcome \in FailureOutcomes)
    => TextLen(response_text) > 0

C10_ChunkTerminates == <>(chunk_pc = "done" \/ ChunkOutOfBounds)

\* the call has returned for a text longer than chunk_size
C11Long == chunk_pc = "done" /\ Len(text) > chunk_size

\* C11: for a text longer than chunk_size the returned chunks are in strictly
\* increasing order of the offset in the text at which each was cut.
C11_StartsIncrease ==
  C11Long =>
    \A i \in 1..(Len(spans) - 1) : spans[i + 1][1] > spans[i][1]

\* three or more overlapping chunks were returned
C11_Witness ==
  /\ C11Long
  /\ overlap > 0
  /\ Len(spans) >= 3

\* C12: for a text longer than chunk_size every returned chunk has at most
\* chunk_size characters.
C12_ChunkLengthBounded ==
  C11Long =>
    \A i \in 1..Len(chunks) : Len(chunks[i]) <= chunk_size

\* two or more chunks were returned, one of them of full length
C12_Witness ==
  /\ C11Long
  /\ chunk_size >= 2
  /\ Len(chunks) >= 2
  /\ \E i \in 1..Len(chunks) : Len(chunks[i]) = chunk_size

\* every character of s is white space (the empty text included)
C13Blank(s) == \A k \in 1..Len(s) : IsSpace(s[k])

\* the candidate cut after a chunk that ended at end_ is dropped
C13NextDropped(end_) ==
  LET from == end_ - overlap
  IN  C13Blank(Slice(text, from, chunk_end(text, from, chunk_size)))

\* C13 as stated: for a text longer than chunk_size every returned chunk
\* after the first, the last one possibly excepted, starts exactly overlap
\* characters before the end of the chunk returned before it.
C13_OverlapAsClaimed ==
  C11Long =>
    \A i \in 1..(Len(spans) - 2) : spans[i + 1][1] = spans[i][2] - overlap

\* C13 amended: for a text longer than chunk_size every returned chunk after
\* the first, the last one included, starts exactly overlap characters
\* before the end of the chunk returned before it, unless a white-space-only
\* candidate was cut and dropped between the two.
C13_OverlapUnlessDropped ==
  C11Long =>
    \A i \in 1..(Len(spans) - 1) :
      \/ spans[i + 1][1] = spans[i][2] - overlap
      \/ C13NextDropped(spans[i][2])

\* overlapping chunks were returned, with a dropped candidate between two of
\* them
C13_Witness ==
  /\ C11Long
  /\ overlap > 0
  /\ \E i \in 1..(Len(spans) - 1) : spans[i + 1][1] = spans[i][2] - overlap
  /\ \E i \in 1..(Len(spans) - 1) : spans[i + 1][1] # spans[i][2] - overlap

\* C14: a text of at most chunk_size characters, the empty and the
\* white-space-only text included, is returned as exactly one chunk equal
\* to the text.
C14_ShortTextOneChunk ==
  (chunk_pc = "done" /\ Len(text) <= chunk_size) => chunks = <<text>>

\* a white-space-only text was returned as its own single chunk
C14_Witness ==
  /\ chunk_pc = "done"
  /\ Len(text) <= chunk_size
  /\ Len(text) > 0
  /\ C13Blank(text)
  /\ chunks = <<text>>

\* C15 as stated: no returned chunk is empty or white-space-only, for a
\* short text as for a long one.
C15_NoBlankChunkAsClaimed ==
  chunk_pc = "done" => \A i \in 1..Len(chunks) : ~C13Blank(chunks[i])

\* C15 amended: a returned chunk is empty or white-space-only only when the
\* text has at most chunk_size characters and is that chunk; for a longer
\* text no returned chunk is empty or white-space-only.
C15_NoBlankChunkOfLongText ==
  chunk_pc = "done" =>
    \A i \in 1..Len(chunks) :
      C13Blank(chunks[i]) => (Len(text) <= chunk_size /\ chunks = <<text>>)

\* a long text was chunked without overlap and a candidate between two
\* returned chunks was dropped
C15_Witness ==
  /\ C11Long
  /\ overlap = 0
  /\ \E i \in 1..(Len(spans) - 1) : spans[i + 1][1] > spans[i][2]

\* the chunk indexes of the scoring requests made, in the order made
C16Scored == [k \in 1..Len(chunk_relevance_scores) |-> chunk_relevance_scores[k][1]]

\* C16: when the call has returned, the chunks scored are exactly the first
\* min(number of chunks, 10) chunks, in their original order: indices 0..9
\* of a document of more than 10 chunks, every chunk of a smaller one.
C16_ScoresUpToCap ==
  sum_pc = "done" =>
    C16Scored = [k \in 1..Min(total_chunks, HARD_CAP) |-> k - 1]

\* a relevance entry of a chunk the scorer was asked about
C17HasEntry(entries, i) ==
  \E k \in 1..Len(entries) : entries[k].chunk_index = i

C17Separates(entries) ==
  /\ \A k \in 1..Len(entries) : entries[k].relevance_score >= RELEVANCE_THRESHOLD
  /\ \A k \in 1..Len(chunk_relevance_scores) :
       ~C17HasEntry(entries, chunk_relevance_scores[k][1])
         => chunk_relevance_scores[k][2] < RELEVANCE_THRESHOLD

\* C17: every entry of relevant_chunks has a score of at least 6, and every
\* scored chunk without an entry has a score below 6, while the chunks are
\* scored and in the returned result.
C17_ThresholdSeparates ==
  /\ C17Separates(relevant_summaries)
  /\ sum_pc = "done" => C17Separates(summary_result.relevant_chunks)

\* the result holds an entry with a score of exactly 6 and leaves out a
\* chunk that was scored 5
C17_Witness ==
  /\ sum_pc = "done"
  /\ \E k \in 1..Len(summary_result.relevant_chunks) :
       summary_result.relevant_chunks[k].relevance_score = RELEVANCE_THRESHOLD
  /\ \E k \in 1..Len(chunk_relevance_scores) :
       /\ chunk_relevance_scores[k][2] = RELEVANCE_THRESHOLD - 1
       /\ ~C17HasEntry(summary_result.relevant_chunks, chunk_relevance_scores[k][1])

\* C18: every score recorded in chunk_relevance_scores and in
\* relevant_chunks is an integer from 0 to 10, whatever the scorer wrote
\* after "Relevance Score:".
C18_ScoresInRange ==
  /\ \A k \in 1..Len(chunk_relevance_scores) :
       chunk_relevance_scores[k][2] \in 0..SCORE_SCALE
  /\ \A k \in 1..Len(relevant_summaries) :
       relevant_summaries[k].relevance_score \in 0..SCORE_SCALE

\* the entries of relevant_summaries that did not reach the synthesis prompt
C19Unused ==
  { k \in 1..Len(relevant_summaries) :
      ~C17HasEntry(sections_analysis, relevant_summaries[k].chunk_index) }

\* C19: the synthesis request carries the summaries of at most 5 relevant
\* chunks, and when more than 5 chunks reached the threshold no chunk left
\* out scored higher than a chunk that was used.
C19_TopFiveUsed ==
  (sum_pc = "done" /\ synthesis_calls > 0) =>
    /\ Len(sections_analysis) <= TOP_SECTIONS
    /\ \A u \in C19Unused : \A k \in 1..Len(sections_analysis) :
         relevant_summaries[u].relevance_score
           <= sections_analysis[k].relevance_score

\* replies from which no score can be read: the error text of a failed
\* request and a reply without a number
C20Failed == {"error", "word"}

\* no recorded score reaches the threshold
C20NoneRelevant ==
  \A k \in 1..Len(chunk_relevance_scores) :
    chunk_relevance_scores[k][2] < RELEVANCE_THRESHOLD

C21Tier(seg) ==
  IF seg.kind = "loaded" THEN 1
  ELSE IF seg.kind \in {"tool_data", "tool_error"} THEN 2
  ELSE IF seg.kind = "rag" THEN 3
  ELSE 0

\* C21: in the context of a chat turn the sources present appear in
\* priority order: document content first, then tool context, then
\* retrieved passages.
C21_PriorityOrder ==
  route = "chat" =>
    \A i, j \in DOMAIN combined_context :
      (i < j /\ C21Tier(combined_context[i]) > 0 /\ C21Tier(combined_context[j]) > 0)
        => C21Tier(combined_context[i]) <= C21Tier(combined_context[j])

\* the position of a tool in the registration order
C22Rank(tool) == CHOOSE k \in DOMAIN RegistrationOrder : RegistrationOrder[k] = tool

\* C22: the merged context returned by route_query holds the non-empty
\* outputs of the executed providers in registration order, and between
\* two consecutive outputs there is a blank line (two line breaks in a row).
C22_MergedContext ==
  pc = "routed" =>
    \A i \in DOMAIN tool_context :
      IF tool_context[i].kind = "sep"
      THEN /\ 1 < i /\ i < Len(tool_context)
           /\ C22Rank(tool_context[i - 1].src) < C22Rank(tool_context[i + 1].src)
           /\ trailing_newlines(tool_context[i - 1]) + tool_context[i].len
                + leading_newlines(tool_context[i + 1]) >= 2
      ELSE /\ tool_context[i].len > 0
           /\ \E k \in DOMAIN tool_results :
                /\ tool_results[k].tool = tool_context[i].src
                /\ format_for_llm(tool_results[k]) = <<tool_context[i]>>

\* C23: a provider whose backing call failed contributes no text to the
\* context passed to the LLM: the tool context and the context message of
\* a turn hold text only of providers whose result has success = true.
C23_FailedProviderSilent ==
  /\ \A i \in DOMAIN tool_context : tool_context[i].kind # "tool_error"
  /\ \A i \in DOMAIN combined_context : combined_context[i].kind # "tool_error"

\* C24: every external call of a turn carries a timeout, so a /chat turn
\* completes even if a backing service never responds: the handler is never
\* left waiting without end in a call.
C24_NoCallWithoutTimeout == pc # "blocked"

\* the term X of  when\s+is\s+(the|my)\s+next\s+(.+)  in a one-line message:
\* what follows the blanks after the leftmost match
C25Term(s) ==
  LET e == MinOf(NextEventEnds(s))
      ps == { j \in ReSpaces(s, {e}) : j < Len(s) }
      q == CHOOSE j \in ps : \A k \in ps : k <= j
  IN  SubSeq(s, q + 1, Len(s))

\* the first event of the reply whose summary contains the term, if any
C25FirstMatch(events_, term) ==
  LET found == SelectSeq(events_, LAMBDA ev : Contains(Lower(ev), Lower(term)))
  IN  SubSeq(found, 1, Min(1, Len(found)))

\* C25: for a query found "when is (the|my) next X" the provider asks for
\* the next 30 days and its result presents only the first event of the reply
\* whose summary contains X, compared without regard to case
C25_NextEventFiltered ==
  (intent_pc = "executed" /\ NextEventTermPattern(Lower(query))) =>
    /\ endpoint = Endpoint("next", <<"3", "0">>)
    /\ presented = C25FirstMatch(events, C25Term(Lower(query)))

\* the part of C25 the provider does carry out: the next 30 days are asked for
C25_NextThirtyDays ==
  (intent_pc = "executed" /\ NextEventTermPattern(Lower(query))) =>
    endpoint = Endpoint("next", <<"3", "0">>)

\* q contains one of the keywords; a keyword written with .* is a pattern
C26Keyworded(keywords, q) ==
  \E i \in DOMAIN keywords :
    \/ /\ ~Contains(keywords[i], W_wildcard)
       /\ Contains(q, keywords[i])
    \/ /\ Contains(keywords[i], W_wildcard)
       /\ WildcardMatch(q, keywords[i])

C26CalendarWorded(q) ==
  \/ AnyIn(q, primary_keywords)
  \/ AnyIn(q, secondary_keywords)
  \/ NextEventPattern(q)

C27_HistoryBounded ==
  pc = "idle" => Len(message_history) <= MAX_MESSAGE_HISTORY

\* C28: the tool_results returned by route_query hold exactly one entry per
\* matching provider, in the order of matching_tools
C28_OneResultPerTool ==
  pc = "routed" =>
    /\ Len(tool_results) = Len(matching_tools)
    /\ \A i \in 1..Len(matching_tools) : tool_results[i].tool = matching_tools[i]

\* the part of C28 that holds: every matching provider has an entry, and the
\* entries follow the order of matching_tools
C28_EveryToolHasResult ==
  pc = "routed" =>
    \E f \in [1..Len(matching_tools) -> 1..Len(tool_results)] :
      /\ \A i \in 1..Len(matching_tools) : tool_results[f[i]].tool = matching_tools[i]
      /\ \A i, j \in 1..Len(matching_tools) : i < j => f[i] < f[j]

\* C29: for every query the request chosen by CalendarTool._determine_endpoint
\* and the request calendar_intelligence makes for the detected intent have
\* the same kind and, for a range, the same number of days
C29_ResolutionsAgree ==
  intent_pc \in {"resolved", "executed"} =>
    LET lib == fetch_events_for_intent(intent)
    IN  /\ endpoint.kind = lib.kind
        /\ endpoint.kind = "next" => StrToInt(endpoint.days) = StrToInt(lib.days)

\* the two agree on every query that is not 'when is (the|my) next' with
\* nothing after it
C29_AgreeWithTerm ==
  ( /\ intent_pc \in {"resolved", "executed"}
    /\ NextEventPattern(Lower(query)) => NextEventTermPattern(Lower(query)) ) =>
    LET lib == fetch_events_for_intent(intent)
    IN  /\ endpoint.kind = lib.kind
        /\ endpoint.kind = "next" => StrToInt(endpoint.days) = StrToInt(lib.days)

\* the least advance of start the claim states: chunk_size - 998 - overlap
C30Advance == SUMMARY_CHUNK_SIZE - (SEARCH_WINDOW - 2) - SUMMARY_OVERLAP

\* start advances by at least C30Advance from one pass to the next
C30Advances ==
  /\ \A i \in 1..(Len(doc_windows) - 1) :
       doc_windows[i + 1][1] >= doc_windows[i][1] + C30Advance
  /\ (doc_pc = "loop" /\ Len(doc_windows) > 0) =>
       /\ doc_start > doc_windows[Len(doc_windows)][1]
       /\ doc_start < doc_len =>
            doc_start >= doc_windows[Len(doc_windows)][1] + C30Advance

\* the windows of a finished call leave no character out: the first begins
\* at 0, each begins no later than the one before ends, the last ends at
\* len(text)
C30Covered ==
  doc_pc = "done" =>
    /\ Len(doc_windows) > 0
    /\ doc_windows[1][1] = 0
    /\ doc_windows[Len(doc_windows)][2] = doc_len
    /\ \A i \in 1..(Len(doc_windows) - 1) :
         /\ doc_windows[i + 1][1] <= doc_windows[i][2]
         /\ doc_windows[i + 1][1] >= 0

\* C30: with chunk_size 40000 and overlap 3000 the start offset grows by at
\* least 36002 characters on every pass but the last, whatever boundary is
\* found in the search window; the call ends for every length of text, and
\* every character lies in some window
C30_SummaryChunkingAdvances ==
  /\ [](C30Advances /\ C30Covered)
  /\ <>(doc_pc = "done")

\* a finished call of three and more passes in which one pass advanced by
\* exactly the least amount and another by more
C30_Witness ==
  /\ doc_pc = "done"
  /\ Len(doc_windows) >= 3
  /\ \E i \in 1..(Len(doc_windows) - 1) :
       doc_windows[i + 1][1] = doc_windows[i][1] + C30Advance
  /\ \E i \in 1..(Len(doc_windows) - 1) :
       doc_windows[i + 1][1] > doc_windows[i][1] + C30Advance

(***************************************************************************)
(* Specifications                                                          *)
(***************************************************************************)
vars == <<intentVars, turnVars, chunkVars, sumVars, docVars>>

\* the HTTP turns of one session
Init == TurnInit /\ IntentIdle /\ ChunkIdle /\ SumIdle /\ DocIdle

Next ==
  \/ ChatPost
  \/ VoicePost
  \/ RouteQuery
  \/ ExecuteToolInTurn
  \/ RouteReturn
  \/ ChatRetrieve
  \/ ChatDocuments
  \/ ChatLlm
  \/ VoiceRetrieve
  \/ VoiceLlm

Spec == Init /\ [][Next]_vars

\* the same requests made in a session carried over from earlier requests
InitCarried == CarriedInit /\ IntentIdle /\ ChunkIdle /\ SumIdle /\ DocIdle

SpecCarried == InitCarried /\ [][Next]_vars

\* one call of route_query, every outcome of every provider
InitRouter == RouterInit /\ IntentIdle /\ ChunkIdle /\ SumIdle /\ DocIdle

NextRouter ==
  \/ RouteQuery
  \/ ExecuteToolAlone
  \/ RouteReturn

SpecRouter == InitRouter /\ [][NextRouter]_vars

\* the calendar provider classifying and resolving one query
InitIntent == IntentInit /\ TurnIdle /\ ChunkIdle /\ SumIdle /\ DocIdle

NextIntent ==
  \/ CanHandle
  \/ DetermineEndpoint
  \/ FetchEvents

SpecIntent == InitIntent /\ [][NextIntent]_vars

\* one call of chunk_text
InitChunk == ChunkInit /\ IntentIdle /\ TurnIdle /\ SumIdle /\ DocIdle

NextChunk ==
  \/ ChunkCall
  \/ ChunkTest
  \/ ChunkStep
  \/ ChunkReturn

SpecChunk == InitChunk /\ [][NextChunk]_vars

\* the interpreter keeps executing the loop: an enabled iteration is taken
SpecChunkFair ==
  /\ InitChunk
  /\ [][NextChunk]_vars
  /\ WF_vars(ChunkTest)
  /\ WF_vars(ChunkStep)
  /\ WF_vars(ChunkCall)
  /\ WF_vars(ChunkReturn)

\* one call of summarize_large_document, every reply of the scorer
InitSummarize ==
  SumInit /\ IntentIdle /\ TurnIdle /\ ChunkIdle /\ DocIdle

NextSummarize ==
  \/ SumOverview
  \/ SumScore
  \/ SumSynthesize
  \/ SumFallback

SpecSummarize == InitSummarize /\ [][NextSummarize]_vars

\* one call of chunk_text with the summarizer's constants
InitDocChunk ==
  DocInit /\ IntentIdle /\ TurnIdle /\ ChunkIdle /\ SumIdle

NextDocChunk ==
  \/ DocCall
  \/ DocStep
  \/ DocReturn

\* the interpreter keeps executing the loop: an enabled step is taken
SpecDocChunkFair ==
  /\ InitDocChunk
  /\ [][NextDocChunk]_vars
  /\ WF_vars(DocCall)
  /\ WF_vars(DocStep)
  /\ WF_vars(DocReturn)

====
